---------------------------- MODULE Spec2Model ----------------------------
(***************************************************************************)
(* Valuation engine of valorador-online (src/src/lib/api/valuation.ts).    *)
(*                                                                         *)
(* Representation                                                          *)
(*  - A Partial<PropertyData> is a function from the names of the fields   *)
(*    that are supplied to their values; an absent field is not in DOMAIN. *)
(*  - An optional argument is a tuple of length 0 (undefined) or 1.        *)
(*  - Strings the code inspects character by character (postalCode, city,  *)
(*    cadastralReference) are sequences of one-character strings; enum     *)
(*    values and extras tags, which the code only compares, are strings.   *)
(*  - Fractions are exact: an adjustment of 0.05 is the integer 5          *)
(*    (hundredths), and Math.round is taken of an exact quotient.          *)
(*  - Postal codes, cities and tags are ordinary labels: none is the name  *)
(*    of a member that object literals inherit (such as "constructor").    *)
(***************************************************************************)
EXTENDS Integers, Sequences, FiniteSets, TLC

VARIABLES property, calls, currentYear, extrasArg, extrasRun,
          adjArgs, adjRun, response, parsed, selected, fetched,
          heap, store, history, mount, pending, outbox

\* the arguments and the result of one adjustment calculator
adjVars == <<adjArgs, adjRun>>

\* a registry response and what the normalizer and its callers make of it
cadVars == <<response, parsed, selected, fetched>>

\* the module's objects (heap), the wizard's store, the browser history, the
\* state of the mounted screen, the asynchronous work in flight and the
\* requests sent to the outside
wizVars == <<heap, store, history, mount, pending, outbox>>

vars == <<property, calls, currentYear, extrasArg, extrasRun, adjVars, cadVars, wizVars>>

---------------------------------------------------------------------------
(* JavaScript values *)

undefined == <<>>

Get(p, f) == IF f \in DOMAIN p THEN <<p[f]>> ELSE undefined

\* truthiness of an optional number: neither undefined nor 0
TruthyNum(v) == v # undefined /\ v[1] # 0

\* truthiness of an optional string: neither undefined nor ""
TruthyStr(v) == v # undefined /\ v[1] # <<>>

\* truthiness of an optional enum string
TruthyTag(v) == v # undefined /\ v[1] # ""

\* a || d for numbers
OrNum(v, d) == IF TruthyNum(v) THEN v[1] ELSE d

Min(a, b) == IF a <= b THEN a ELSE b

\* Math.round(n / d) for even d > 0: floor(n/d + 1/2)
Round(n, d) == (n + d \div 2) \div d

Range(s) == {s[i] : i \in 1..Len(s)}

LowerChar(c) ==
    CASE c = "A" -> "a" [] c = "B" -> "b" [] c = "D" -> "d" [] c = "I" -> "i"
      [] c = "M" -> "m" [] c = "R" -> "r" [] c = "S" -> "s" [] c = "E" -> "e"
      [] c = "V" -> "v" [] c = "L" -> "l" [] c = "O" -> "o" [] c = "N" -> "n"
      [] OTHER -> c

\* String.prototype.toLowerCase
toLowerCase(s) == [i \in 1..Len(s) |-> LowerChar(s[i])]

\* String.prototype.substring(0, n)
substring0(s, n) == SubSeq(s, 1, Min(n, Len(s)))

\* String.prototype.startsWith
startsWith(s, prefix) ==
    Len(prefix) <= Len(s) /\ SubSeq(s, 1, Len(prefix)) = prefix

---------------------------------------------------------------------------
(* Reference data: data/pricesByZone.json.  The entries are listed in the  *)
(* order Object.values / Object.entries enumerate them.  Prices are        *)
(* multiples of 20, so that pricePerSqm * 0.85 is a whole number.          *)

zones ==
    << [code |-> <<"2","8","0","0","1">>, city |-> <<"M","a","d","r","i","d">>,
        zone |-> "Salamanca", pricePerSqm |-> 3800, tier |-> "luxury"],
       [code |-> <<"2","8","0","1","4">>, city |-> <<"M","a","d","r","i","d">>,
        zone |-> "Retiro", pricePerSqm |-> 3500, tier |-> "premium"],
       [code |-> <<"4","1","0","0","1">>, city |-> <<"S","e","v","i","l","l","a">>,
        zone |-> "Centro", pricePerSqm |-> 2200, tier |-> "high"],
       [code |-> <<"0","8","0","0","1">>, city |-> <<"B","a","r","c","e","l","o","n","a">>,
        zone |-> "Ciutat Vella", pricePerSqm |-> 3200, tier |-> "premium"] >>

defaults == [spain_average |-> 1800]

\* prices.zones[postalCode]: the indices of the entry with that key (at most one)
zoneIndex(postalCode) == {i \in 1..Len(zones) : zones[i].code = postalCode}

\* Array.prototype.find: the first index satisfying the test, 0 if none
FirstIndex(S) == IF S = {} THEN 0 ELSE CHOOSE i \in S : \A j \in S : i <= j

---------------------------------------------------------------------------
(* getBasePricePerSqm(postalCode?, city?) *)

\* the prefix match tried before the city match
getBasePricePerSqmPrefixFirst(postalCode, city) ==
    IF TruthyStr(postalCode) /\ zoneIndex(postalCode[1]) # {}
    THEN zones[FirstIndex(zoneIndex(postalCode[1]))].pricePerSqm
    ELSE
      LET cityZone ==
            IF TruthyStr(city)
            THEN FirstIndex({i \in 1..Len(zones) :
                     toLowerCase(zones[i].city) = toLowerCase(city[1])})
            ELSE 0
          prefixMatch ==
            IF TruthyStr(postalCode)
            THEN FirstIndex({i \in 1..Len(zones) :
                     startsWith(zones[i].code, substring0(postalCode[1], 3))})
            ELSE 0
      IN  IF prefixMatch # 0 THEN (zones[prefixMatch].pricePerSqm * 85) \div 100
          ELSE IF cityZone # 0 THEN zones[cityZone].pricePerSqm
          ELSE defaults.spain_average

getBasePricePerSqm(postalCode, city) ==
    IF TruthyStr(postalCode) /\ zoneIndex(postalCode[1]) # {}
    THEN zones[FirstIndex(zoneIndex(postalCode[1]))].pricePerSqm
    ELSE
      LET cityZone ==
            IF TruthyStr(city)
            THEN FirstIndex({i \in 1..Len(zones) :
                     toLowerCase(zones[i].city) = toLowerCase(city[1])})
            ELSE 0
          prefixMatch ==
            IF TruthyStr(postalCode)
            THEN FirstIndex({i \in 1..Len(zones) :
                     startsWith(zones[i].code, substring0(postalCode[1], 3))})
            ELSE 0
      IN  IF cityZone # 0 THEN zones[cityZone].pricePerSqm
          ELSE IF prefixMatch # 0 THEN (zones[prefixMatch].pricePerSqm * 85) \div 100
          ELSE defaults.spain_average

---------------------------------------------------------------------------
(* Adjustment calculators, in hundredths.  The tags "Jardin", "Calefaccion", *)
(* "Domotica" and "Balcon" stand for the accented tags of the source.        *)

\* the age bands compared with < in place of <=
getYearAdjustmentLt(year, now) ==
    IF ~TruthyNum(year) THEN 0
    ELSE LET age == now - year[1]
         IN  IF age <= 0 THEN 15
             ELSE IF age < 5 THEN 10
             ELSE IF age < 10 THEN 5
             ELSE IF age < 20 THEN 0
             ELSE IF age < 40 THEN -5
             ELSE IF age < 60 THEN -10
             ELSE -12

\* now is the value of new Date().getFullYear()
getYearAdjustment(year, now) ==
    IF ~TruthyNum(year) THEN 0
    ELSE LET age == now - year[1]
         IN  IF age <= 0 THEN 15
             ELSE IF age <= 5 THEN 10
             ELSE IF age <= 10 THEN 5
             ELSE IF age <= 20 THEN 0
             ELSE IF age <= 40 THEN -5
             ELSE IF age <= 60 THEN -10
             ELSE -12

extraValues ==
    [t \in {"Terraza", "Amueblado", "Trastero", "Piscina", "Parking", "Jardin",
            "Cerca ciudad", "Com. cerrada", "Buenas vistas", "Seguridad",
            "Deportes", "Portero", "Aire A/C", "Calefaccion", "Domotica",
            "Ascensor", "Balcon"} |->
        CASE t \in {"Terraza", "Parking"} -> 5
          [] t \in {"Piscina", "Jardin", "Buenas vistas"} -> 4
          [] t \in {"Com. cerrada", "Domotica"} -> 3
          [] OTHER -> 2]

\* extraValues[extra] || 0.01
extraValue(extra) ==
    IF extra \in DOMAIN extraValues THEN extraValues[extra] ELSE 1

RECURSIVE sumExtras(_)
sumExtras(extras) ==
    IF extras = <<>> THEN 0
    ELSE sumExtras(SubSeq(extras, 1, Len(extras) - 1)) + extraValue(extras[Len(extras)])

\* the cap of line 183 dropped
getExtrasAdjustmentNoCap(extras) == sumExtras(extras)

getExtrasAdjustment(extras) == Min(sumExtras(extras), 25)

getFinishQualityAdjustment(quality) ==
    IF quality = undefined THEN 0
    ELSE CASE quality[1] = "design" -> 15
           [] quality[1] = "good" -> 5
           [] quality[1] = "acceptable" -> 0
           [] quality[1] = "small_reform" -> -10
           [] quality[1] = "full_reform" -> -20
           [] OTHER -> 0

\* the medium band ending at 100 in place of 120
getSizeAdjustmentShifted(surface) ==
    IF surface < 50 THEN 10
    ELSE IF surface < 80 THEN 5
    ELSE IF surface < 100 THEN 0
    ELSE IF surface < 180 THEN -3
    ELSE IF surface < 250 THEN -5
    ELSE -8

getSizeAdjustment(surface) ==
    IF surface < 50 THEN 10
    ELSE IF surface < 80 THEN 5
    ELSE IF surface < 120 THEN 0
    ELSE IF surface < 180 THEN -3
    ELSE IF surface < 250 THEN -5
    ELSE -8

\* sqmPerBedroom = surface / bedrooms is compared by cross-multiplication;
\* bedrooms is a count (> 0 once it is truthy)
\* the small-room band taken to include 15 m2 per bedroom, and the bonus
\* given without looking at the bathrooms
getRoomsAdjustmentLoose(bedrooms, bathrooms, surface) ==
    IF ~TruthyNum(bedrooms) \/ ~TruthyNum(surface) THEN 0
    ELSE IF surface[1] <= 15 * bedrooms[1] THEN -5
    ELSE IF surface[1] > 50 * bedrooms[1] THEN -2
    ELSE IF surface[1] >= 100 THEN 2
    ELSE 0

getRoomsAdjustment(bedrooms, bathrooms, surface) ==
    IF ~TruthyNum(bedrooms) \/ ~TruthyNum(surface) THEN 0
    ELSE IF surface[1] < 15 * bedrooms[1] THEN -5
    ELSE IF surface[1] > 50 * bedrooms[1] THEN -2
    ELSE IF TruthyNum(bathrooms) /\ bathrooms[1] >= 2 /\ surface[1] >= 100 THEN 2
    ELSE 0

---------------------------------------------------------------------------
(* calculateConfidence(property) *)

confidenceScore(p) ==
    50
    + (IF TruthyStr(Get(p, "postalCode"))
       THEN (IF zoneIndex(p.postalCode) # {} THEN 15 ELSE 5) ELSE 0)
    + (IF TruthyStr(Get(p, "city")) THEN 5 ELSE 0)
    + (IF TruthyNum(Get(p, "latitude")) /\ TruthyNum(Get(p, "longitude")) THEN 5 ELSE 0)
    + (IF TruthyNum(Get(p, "surface")) THEN 5 ELSE 0)
    + (IF TruthyNum(Get(p, "constructionYear")) THEN 5 ELSE 0)
    + (IF TruthyStr(Get(p, "cadastralReference")) THEN 5 ELSE 0)
    + (IF TruthyNum(Get(p, "bedrooms")) THEN 3 ELSE 0)
    + (IF TruthyNum(Get(p, "bathrooms")) THEN 2 ELSE 0)
    + (IF "extras" \in DOMAIN p /\ Len(p.extras) > 0 THEN 3 ELSE 0)
    + (IF TruthyTag(Get(p, "finishQuality")) THEN 2 ELSE 0)

\* the cap of line 291 dropped
calculateConfidenceNoCap(p) == confidenceScore(p)

calculateConfidence(p) == Min(confidenceScore(p), 95)

---------------------------------------------------------------------------
(* calculateValuation(property), with the clock reading as a parameter.    *)
(* The locals basePricePerSqm and totalAdjustment are kept beside the      *)
(* returned ValuationResult.                                               *)

\* property.extras || []
extrasOf(p) == IF "extras" \in DOMAIN p THEN p.extras ELSE <<>>

totalAdjustmentOf(p, now) ==
    100 + getYearAdjustment(Get(p, "constructionYear"), now)
        + getExtrasAdjustment(extrasOf(p))
        + getFinishQualityAdjustment(Get(p, "finishQuality"))
        + getSizeAdjustment(OrNum(Get(p, "surface"), 100))
        + getRoomsAdjustment(Get(p, "bedrooms"), Get(p, "bathrooms"), Get(p, "surface"))

\* the default of VerifyData (120) used in place of 100
surfaceOfDefault120(p) == OrNum(Get(p, "surface"), 120)

\* const surface = property.surface || 100
surfaceOf(p) == OrNum(Get(p, "surface"), 100)

\* the two margins exchanged
valuationOfSwappedMargins(basePricePerSqm, totalAdjustment, surface, confidence) ==
    [ conservative |-> Round(basePricePerSqm * totalAdjustment * surface * 11, 1000),
      estimated    |-> Round(basePricePerSqm * totalAdjustment * surface, 100),
      optimistic   |-> Round(basePricePerSqm * totalAdjustment * surface * 9, 1000),
      pricePerSqm  |-> Round(basePricePerSqm * totalAdjustment, 100),
      confidence   |-> confidence ]

\* the margin added on both sides
valuationOfMarginAdded(basePricePerSqm, totalAdjustment, surface, confidence) ==
    [ conservative |-> Round(basePricePerSqm * totalAdjustment * surface * 11, 1000),
      estimated    |-> Round(basePricePerSqm * totalAdjustment * surface, 100),
      optimistic   |-> Round(basePricePerSqm * totalAdjustment * surface * 11, 1000),
      pricePerSqm  |-> Round(basePricePerSqm * totalAdjustment, 100),
      confidence   |-> confidence ]

\* the amounts derived from the rounded price per m2 and the rounded
\* estimate
valuationOfFromRounded(basePricePerSqm, totalAdjustment, surface, confidence) ==
    [ conservative |-> Round(Round(basePricePerSqm * totalAdjustment, 100) * surface * 9, 10),
      estimated    |-> Round(basePricePerSqm * totalAdjustment, 100) * surface,
      optimistic   |-> Round(Round(basePricePerSqm * totalAdjustment, 100) * surface * 11, 10),
      pricePerSqm  |-> Round(basePricePerSqm * totalAdjustment, 100),
      confidence   |-> confidence ]

\* steps 4-6 and the rounding of the returned object
valuationOf(basePricePerSqm, totalAdjustment, surface, confidence) ==
    [ conservative |-> Round(basePricePerSqm * totalAdjustment * surface * 9, 1000),
      estimated    |-> Round(basePricePerSqm * totalAdjustment * surface, 100),
      optimistic   |-> Round(basePricePerSqm * totalAdjustment * surface * 11, 1000),
      pricePerSqm  |-> Round(basePricePerSqm * totalAdjustment, 100),
      confidence   |-> confidence ]

calculateValuation(p, now) ==
    valuationOf(getBasePricePerSqm(Get(p, "postalCode"), Get(p, "city")),
                totalAdjustmentOf(p, now),
                surfaceOf(p),
                calculateConfidence(p))

---------------------------------------------------------------------------
(* Inputs *)

BaseYear == 2020
MaxTicks == 1
MaxAdded == 1
MaxUnits == 2

EmptyRec == [f \in {} |-> 0]

Single(f, v) == [k \in {f} |-> v]

\* { ...a, ...b }
Merge(a, b) ==
    [k \in DOMAIN a \cup DOMAIN b |-> IF k \in DOMAIN b THEN b[k] ELSE a[k]]

Restrict(p, S) == [f \in S |-> p[f]]

FieldOpts(f, V) == {EmptyRec} \cup {Single(f, v) : v \in V}

Str28014 == <<"2","8","0","1","4">>
StrMadrid == <<"M","a","d","r","i","d">>

EightExtras ==
    <<"Piscina", "Parking", "Jardin", "Terraza", "Ascensor", "Balcon",
      "Seguridad", "Domotica">>

Fields ==
    {"postalCode", "city", "latitude", "longitude", "cadastralReference",
     "surface", "constructionYear", "bedrooms", "bathrooms", "extras",
     "finishQuality"}

FullProperty ==
    [postalCode |-> Str28014, city |-> StrMadrid, latitude |-> 40,
     longitude |-> -3, cadastralReference |-> <<"9","8","7","2">>,
     surface |-> 100, constructionYear |-> 2000, bedrooms |-> 3,
     bathrooms |-> 2, extras |-> <<"Terraza">>, finishQuality |-> "acceptable"]

\* every field supplied with the falsy value of its type
FalsyProperty ==
    [postalCode |-> <<>>, city |-> <<>>, latitude |-> 0, longitude |-> 0,
     cadastralReference |-> <<>>, surface |-> 0, constructionYear |-> 0,
     bedrooms |-> 0, bathrooms |-> 0, extras |-> <<>>, finishQuality |-> ""]

ScenarioMadrid ==
    [postalCode |-> Str28014, city |-> StrMadrid, surface |-> 100,
     constructionYear |-> 2000, extras |-> <<>>, finishQuality |-> "acceptable"]

\* every subset of the fields supplied
PresenceInputs == {Restrict(FullProperty, S) : S \in SUBSET Fields}

\* one field supplied with its falsy value, the others absent or all supplied
FalsyInputs ==
    {Single(f, FalsyProperty[f]) : f \in Fields}
    \cup {Merge(FullProperty, Single(f, FalsyProperty[f])) : f \in Fields}
    \cup {FalsyProperty, ScenarioMadrid}

PostalCodeInputs ==
    {<<>>, Str28014, <<"2","8","0","9","9">>, <<"4","1","0","9","9">>,
     <<"0","8","0","0","1">>, <<"9","9","9","9","9">>}

CityInputs ==
    {<<>>, StrMadrid, <<"M","A","D","R","I","D">>, <<"s","e","v","i","l","l","a">>,
     <<"S","o","r","i","a">>}

ZoneInputs ==
    {Merge(pc, c) : pc \in FieldOpts("postalCode", PostalCodeInputs),
                    c \in FieldOpts("city", CityInputs)}

PricingInputs ==
    {Merge(Merge(Merge(Merge(Merge(Merge(Single("postalCode", Str28014), s), y), q), b), t), x) :
        s \in FieldOpts("surface", {-50, 0, 30, 60, 100, 150, 200, 300}),
        y \in FieldOpts("constructionYear", {0, 1950, 2000, 2001, 2021}),
        q \in FieldOpts("finishQuality", {"design", "acceptable", "full_reform"}),
        b \in FieldOpts("bedrooms", {0, 1, 3, 10}),
        t \in FieldOpts("bathrooms", {2}),
        x \in FieldOpts("extras", {EightExtras})}

\* a postal code priced by its prefix (85% of the zone price) with surfaces
\* that leave fractions of a euro before rounding
Str28099 == <<"2","8","0","9","9">>

RoundingInputs ==
    {Merge(Merge(Merge(Merge(Single("postalCode", Str28099), s), y), q), b) :
        s \in FieldOpts("surface", {33, 57, 101, 133}) \ {EmptyRec},
        y \in FieldOpts("constructionYear", {1950, 2001}),
        q \in FieldOpts("finishQuality", {"design", "full_reform"}),
        b \in FieldOpts("bedrooms", {1, 3})}

PropertyInputs ==
    PresenceInputs \cup FalsyInputs \cup ZoneInputs \cup PricingInputs \cup RoundingInputs

\* the tags lists are drawn from: the eight of the capped scenario and one
\* tag the table does not hold
ExtraTags == EightExtras \o <<"Sauna">>

SelectIdx(seq, S) ==
    LET F[i \in 0..Len(seq)] ==
          IF i = 0 THEN <<>>
          ELSE IF i \in S THEN Append(F[i - 1], seq[i]) ELSE F[i - 1]
    IN  F[Len(seq)]

\* the lists of distinct tags, in the order of ExtraTags
ExtrasInputs == {SelectIdx(ExtraTags, S) : S \in SUBSET (1..Len(ExtraTags))}

---------------------------------------------------------------------------
(* Each specification below moves its own variables and leaves those of   *)
(* the others at rest.                                                    *)

AdjustmentsIdle == adjArgs = <<>> /\ adjRun = <<>>

CadastreIdle == response = <<>> /\ parsed = <<>> /\ selected = <<>> /\ fetched = <<>>

StoreIdle ==
    /\ store = <<>>
    /\ history = <<>>
    /\ mount = <<>>
    /\ pending = {}
    /\ outbox = <<>>

WizardIdle == heap = <<>> /\ StoreIdle

---------------------------------------------------------------------------
(* The valuation engine applied to an attribute set                        *)

\* the last two invocations: clock reading, locals and returned result
Invocation(p, now) ==
    [ at |-> now,
      basePricePerSqm |-> getBasePricePerSqm(Get(p, "postalCode"), Get(p, "city")),
      totalAdjustment |-> totalAdjustmentOf(p, now),
      result |-> calculateValuation(p, now) ]

LastTwo(s) == IF Len(s) <= 2 THEN s ELSE SubSeq(s, Len(s) - 1, Len(s))

InitValuation ==
    /\ property \in PropertyInputs
    /\ calls = <<>>
    /\ currentYear = BaseYear
    /\ extrasArg = <<>>
    /\ extrasRun = <<>>
    /\ AdjustmentsIdle
    /\ WizardIdle
    /\ CadastreIdle

\* const result = calculateValuation(propertyData)
Calculate ==
    /\ calls' = LastTwo(Append(calls, Invocation(property, currentYear)))
    /\ UNCHANGED <<property, currentYear, extrasArg, extrasRun, adjVars, wizVars, cadVars>>

\* the calendar year of the clock advances
Tick ==
    /\ currentYear < BaseYear + MaxTicks
    /\ currentYear' = currentYear + 1
    /\ UNCHANGED <<property, calls, extrasArg, extrasRun, adjVars, wizVars, cadVars>>

NextValuation == Calculate \/ Tick

ValuationSpec == InitValuation /\ [][NextValuation]_vars

---------------------------------------------------------------------------
(* getExtrasAdjustment applied to a list of tags, and to the list with one *)
(* more tag appended                                                       *)

InitExtras ==
    /\ property = EmptyRec
    /\ calls = <<>>
    /\ currentYear = BaseYear
    /\ extrasArg \in ExtrasInputs
    /\ extrasRun = <<>>
    /\ AdjustmentsIdle
    /\ WizardIdle
    /\ CadastreIdle

ApplyExtras ==
    /\ extrasRun = <<>>
    /\ extrasRun' = <<[added |-> 0,
                       before |-> getExtrasAdjustment(extrasArg),
                       after |-> getExtrasAdjustment(extrasArg)]>>
    /\ UNCHANGED <<property, calls, currentYear, extrasArg, adjVars, wizVars, cadVars>>

\* [...selected, label]
AppendExtra(tag) ==
    /\ extrasRun # <<>>
    /\ extrasRun[1].added < MaxAdded
    /\ extrasArg' = Append(extrasArg, tag)
    /\ extrasRun' = <<[added |-> extrasRun[1].added + 1,
                       before |-> extrasRun[1].after,
                       after |-> getExtrasAdjustment(extrasArg')]>>
    /\ UNCHANGED <<property, calls, currentYear, adjVars, wizVars, cadVars>>

NextExtras == ApplyExtras \/ \E tag \in Range(ExtraTags) : AppendExtra(tag)

ExtrasSpec == InitExtras /\ [][NextExtras]_vars

---------------------------------------------------------------------------
(* getYearAdjustment and getRoomsAdjustment applied to their arguments,    *)
(* the first one at the clock reading of the moment                        *)

YearArgs ==
    {[fn |-> "year", year |-> y, bedrooms |-> <<>>, bathrooms |-> <<>>, surface |-> <<>>] :
        y \in {undefined} \cup {<<n>> : n \in 1940..2023}}

RoomsArgs ==
    {[fn |-> "rooms", year |-> <<>>, bedrooms |-> b, bathrooms |-> t, surface |-> s] :
        b \in {undefined} \cup {<<n>> : n \in 0..6},
        t \in {undefined} \cup {<<n>> : n \in 0..3},
        s \in {undefined} \cup {<<n>> : n \in {14, 15, 16, 29, 30, 31, 50, 51, 89, 90, 91,
                                                99, 100, 101, 150, 151, 300}}}

InitAdjustments ==
    /\ property = EmptyRec
    /\ calls = <<>>
    /\ currentYear = BaseYear
    /\ extrasArg = <<>>
    /\ extrasRun = <<>>
    /\ adjArgs \in YearArgs \cup RoomsArgs
    /\ adjRun = <<>>
    /\ CadastreIdle
    /\ WizardIdle

\* adjustments.age = getYearAdjustment(property.constructionYear)
ApplyYear ==
    /\ adjArgs.fn = "year"
    /\ adjRun' = <<[at |-> currentYear,
                    value |-> getYearAdjustment(adjArgs.year, currentYear)]>>
    /\ UNCHANGED <<property, calls, currentYear, extrasArg, extrasRun, adjArgs, cadVars, wizVars>>

\* adjustments.rooms = getRoomsAdjustment(bedrooms, bathrooms, surface)
ApplyRooms ==
    /\ adjArgs.fn = "rooms"
    /\ adjRun' = <<[at |-> currentYear,
                    value |-> getRoomsAdjustment(adjArgs.bedrooms, adjArgs.bathrooms,
                                                 adjArgs.surface)]>>
    /\ UNCHANGED <<property, calls, currentYear, extrasArg, extrasRun, adjArgs, cadVars, wizVars>>

NextAdjustments == ApplyYear \/ ApplyRooms \/ Tick

AdjustmentSpec == InitAdjustments /\ [][NextAdjustments]_vars

---------------------------------------------------------------------------
(* The registry's JSON as the cadastral client reads it. A value is a pair *)
(* of its kind and its content: strings are sequences of one-character     *)
(* strings, numbers are counted in tenths, an object is a function from    *)
(* its member names to values, an array is a sequence of values. Accents   *)
(* are dropped from labels, and the member name of line 284 whose second   *)
(* letter carries a tilde is written "an~oConstruccion".                   *)

JUndefined == <<"undefined", 0>>
JNull == <<"null", 0>>
JNaN == <<"NaN", 0>>
JStr(s) == <<"string", s>>
JNum(tenths) == <<"number", tenths>>
JInt(n) == <<"number", 10 * n>>
JObj(f) == <<"object", f>>
JArr(s) == <<"array", s>>

Kind(v) == v[1]

\* typeof v
TypeOf(v) ==
    CASE Kind(v) = "undefined" -> "undefined"
      [] Kind(v) = "null" -> "object"
      [] Kind(v) = "NaN" -> "number"
      [] Kind(v) = "array" -> "object"
      [] OTHER -> Kind(v)

\* the truthiness tested by ||, && and ?:
Truthy(v) ==
    CASE Kind(v) = "string" -> v[2] # <<>>
      [] Kind(v) = "number" -> v[2] # 0
      [] Kind(v) \in {"object", "array"} -> TRUE
      [] OTHER -> FALSE

\* a || b
Or(a, b) == IF Truthy(a) THEN a ELSE b

\* v is null or undefined: reading a member of it raises a TypeError
Nullish(v) == Kind(v) \in {"undefined", "null"}

\* v.k for a v that is not nullish
Prop(v, k) ==
    IF Kind(v) = "object" /\ k \in DOMAIN v[2] THEN v[2][k] ELSE JUndefined

\* v.length > 0
HasElements(v) == Kind(v) \in {"array", "string"} /\ Len(v[2]) > 0

\* v[0] for a v that has elements
First(v) == IF Kind(v) = "array" THEN v[2][1] ELSE JStr(<<v[2][1]>>)

DigitChars == <<"0", "1", "2", "3", "4", "5", "6", "7", "8", "9">>

IsDigit(c) == \E d \in 1..10 : DigitChars[d] = c

DigitVal(c) == (CHOOSE d \in 1..10 : DigitChars[d] = c) - 1

\* the decimal digits of a natural number
RECURSIVE ToDigits(_)
ToDigits(n) ==
    IF n < 10 THEN <<DigitChars[n + 1]>>
    ELSE ToDigits(n \div 10) \o <<DigitChars[(n % 10) + 1]>>

Chars_NaN == <<"N", "a", "N">>
Chars_null == <<"n", "u", "l", "l">>
Chars_undefined == <<"u", "n", "d", "e", "f", "i", "n", "e", "d">>
Chars_object == <<"[", "o", "b", "j", "e", "c", "t", " ", "O", "b", "j", "e", "c", "t", "]">>

\* the text of a number given in tenths
NumberChars(tenths) ==
    LET a == IF tenths < 0 THEN -tenths ELSE tenths
    IN  (IF tenths < 0 THEN <<"-">> ELSE <<>>)
        \o ToDigits(a \div 10)
        \o (IF a % 10 = 0 THEN <<>> ELSE <<".", DigitChars[(a % 10) + 1]>>)

\* String(v) and the conversion of a template literal, as characters; an
\* array is joined with commas, its null entries as empty texts
RECURSIVE StringOf(_)
StringOf(v) ==
    CASE Kind(v) = "string" -> v[2]
      [] Kind(v) = "number" -> NumberChars(v[2])
      [] Kind(v) = "NaN" -> Chars_NaN
      [] Kind(v) = "null" -> Chars_null
      [] Kind(v) = "undefined" -> Chars_undefined
      [] Kind(v) = "object" -> Chars_object
      [] Kind(v) = "array" ->
           LET J[i \in 0..Len(v[2])] ==
                 IF i = 0 THEN <<>>
                 ELSE J[i - 1] \o (IF i > 1 THEN <<",">> ELSE <<>>)
                      \o (IF Nullish(v[2][i]) THEN <<>> ELSE StringOf(v[2][i]))
           IN  J[Len(v[2])]

\* s.replace(',', '.'): the first comma only
replaceComma(s) ==
    IF \E i \in 1..Len(s) : s[i] = ","
    THEN LET i == CHOOSE j \in 1..Len(s) : s[j] = "," /\ \A k \in 1..(j - 1) : s[k] # ","
         IN  [s EXCEPT ![i] = "."]
    ELSE s

\* the first position from `from` on that holds no character of set C
SkipWhile(s, from, C) ==
    CHOOSE j \in from..(Len(s) + 1) :
        /\ \A k \in from..(j - 1) : s[k] \in C
        /\ j = Len(s) + 1 \/ s[j] \notin C

Digits == {DigitChars[d] : d \in 1..10}

\* the number written by the digits s[from..to-1]
DigitsValue(s, from, to) ==
    LET V[i \in (from - 1)..(to - 1)] ==
          IF i = from - 1 THEN 0 ELSE V[i - 1] * 10 + DigitVal(s[i])
    IN  V[to - 1]

\* parseInt(s, 10) of a text: blanks, a sign, then digits up to the first
\* character that is not one; NaN when there is no digit
parseIntChars(s) ==
    LET start == SkipWhile(s, 1, {" "})
        signed == start <= Len(s) /\ s[start] \in {"+", "-"}
        from == IF signed THEN start + 1 ELSE start
        to == SkipWhile(s, from, Digits)
        n == DigitsValue(s, from, to)
    IN  IF to = from THEN JNaN
        ELSE JInt(IF signed /\ s[start] = "-" THEN -n ELSE n)

\* parseInt(v, 10): the argument is converted to a string first
parseInt(v) == parseIntChars(StringOf(v))

\* parseFloat(v): as parseInt, with one decimal digit kept after a point
parseFloat(v) ==
    LET s == StringOf(v)
        start == SkipWhile(s, 1, {" "})
        signed == start <= Len(s) /\ s[start] \in {"+", "-"}
        from == IF signed THEN start + 1 ELSE start
        to == SkipWhile(s, from, Digits)
        frac == IF to + 1 <= Len(s) /\ s[to] = "." /\ IsDigit(s[to + 1])
                THEN DigitVal(s[to + 1]) ELSE 0
        n == 10 * DigitsValue(s, from, to) + frac
    IN  IF to = from THEN JNaN
        ELSE JNum(IF signed /\ s[start] = "-" THEN -n ELSE n)

---------------------------------------------------------------------------
(* parseCadastralResponse(data): the registry response normalized into a   *)
(* CadastralData. The outcome is either a returned value (the record or    *)
(* null) or a TypeError raised by reading a member of null.                *)

Returned(v) == [threw |-> FALSE, value |-> v]

Thrown == [threw |-> TRUE, value |-> JUndefined]

\* ${v || ''} inside a template literal
PartText(v) == IF Truthy(v) THEN StringOf(v) ELSE <<>>

Chars_Residencial == <<"R", "e", "s", "i", "d", "e", "n", "c", "i", "a", "l">>
Chars_Plurifamiliar == <<"P", "l", "u", "r", "i", "f", "a", "m", "i", "l", "i", "a", "r">>
Chars_Unifamiliar == <<"U", "n", "i", "f", "a", "m", "i", "l", "i", "a", "r">>
Chars_100 == <<"1", "0", "0">>
Chars_2000 == <<"2", "0", "0", "0">>
Chars_V == <<"V">>

useMapping ==
    [code \in {"V", "I", "O", "C", "K", "T", "G", "Y", "E", "R", "M", "P", "B", "A", "J", "Z"} |->
        CASE code = "V" -> <<"R", "e", "s", "i", "d", "e", "n", "c", "i", "a", "l">>
          [] code = "I" -> <<"I", "n", "d", "u", "s", "t", "r", "i", "a", "l">>
          [] code = "O" -> <<"O", "f", "i", "c", "i", "n", "a", "s">>
          [] code = "C" -> <<"C", "o", "m", "e", "r", "c", "i", "a", "l">>
          [] code = "K" -> <<"D", "e", "p", "o", "r", "t", "i", "v", "o">>
          [] code = "T" -> <<"E", "s", "p", "e", "c", "t", "a", "c", "u", "l", "o", "s">>
          [] code = "G" -> <<"O", "c", "i", "o", " ", "y", " ", "H", "o", "s", "t", "e", "l", "e", "r", "i", "a">>
          [] code = "Y" -> <<"S", "a", "n", "i", "d", "a", "d", " ", "y", " ", "B", "e", "n", "e", "f", "i", "c", "e", "n", "c", "i", "a">>
          [] code = "E" -> <<"E", "d", "u", "c", "a", "c", "i", "o", "n">>
          [] code = "R" -> <<"R", "e", "l", "i", "g", "i", "o", "s", "o">>
          [] code = "M" -> <<"O", "b", "r", "a", "s", " ", "d", "e", " ", "u", "r", "b", "a", "n", "i", "z", "a", "c", "i", "o", "n">>
          [] code = "P" -> <<"E", "d", "i", "f", "i", "c", "i", "o", " ", "s", "i", "n", "g", "u", "l", "a", "r">>
          [] code = "B" -> <<"A", "l", "m", "a", "c", "e", "n", "-", "E", "s", "t", "a", "c", "i", "o", "n", "a", "m", "i", "e", "n", "t", "o">>
          [] code = "A" -> <<"A", "l", "m", "a", "c", "e", "n", " ", "a", "g", "r", "a", "r", "i", "o">>
          [] code = "J" -> <<"I", "n", "d", "u", "s", "t", "r", "i", "a", "l", " ", "a", "g", "r", "a", "r", "i", "o">>
          [] code = "Z" -> <<"A", "g", "r", "a", "r", "i", "o">>]

\* useMapping[uso]
useLabel(uso) ==
    LET key == StringOf(uso)
    IN  IF Len(key) = 1 /\ key[1] \in DOMAIN useMapping
        THEN JStr(useMapping[key[1]]) ELSE JUndefined

\* the first unit of a multi-unit response, else the response itself
propertyDataOf(data) ==
    IF Truthy(Prop(data, "inmuebles")) /\ HasElements(Prop(data, "inmuebles"))
    THEN First(Prop(data, "inmuebles"))
    ELSE data

rcValueOf(propertyData, data) ==
    Or(Or(Prop(propertyData, "rc"), Prop(propertyData, "referenciaCatastral")),
       Prop(data, "rc"))

\* the parts joined as cc2, cc1, car, pc2, pc1
rcOfReversed(rcValue) ==
    IF TypeOf(rcValue) = "string" THEN rcValue
    ELSE IF Truthy(rcValue) /\ TypeOf(rcValue) = "object"
    THEN Or(Prop(rcValue, "referenciaCatastral"),
            JStr(PartText(Prop(rcValue, "cc2")) \o PartText(Prop(rcValue, "cc1"))
                 \o PartText(Prop(rcValue, "car")) \o PartText(Prop(rcValue, "pc2"))
                 \o PartText(Prop(rcValue, "pc1"))))
    ELSE JStr(<<>>)

rcOf(rcValue) ==
    IF TypeOf(rcValue) = "string" THEN rcValue
    ELSE IF Truthy(rcValue) /\ TypeOf(rcValue) = "object"
    THEN Or(Prop(rcValue, "referenciaCatastral"),
            JStr(PartText(Prop(rcValue, "pc1")) \o PartText(Prop(rcValue, "pc2"))
                 \o PartText(Prop(rcValue, "car")) \o PartText(Prop(rcValue, "cc1"))
                 \o PartText(Prop(rcValue, "cc2"))))
    ELSE JStr(<<>>)

\* propertyData.direccion?.valor
valorOf(d) == IF Nullish(d) THEN JUndefined ELSE Prop(d, "valor")

addressOf(propertyData) ==
    IF TypeOf(Prop(propertyData, "direccion")) = "string"
    THEN Prop(propertyData, "direccion")
    ELSE Or(Or(valorOf(Prop(propertyData, "direccion")), Prop(propertyData, "domicilio")),
            JStr(<<>>))

economicosOf(propertyData) == Or(Prop(propertyData, "datosEconomicos"), JObj(EmptyRec))

\* typeof null is 'object': a null direccion is kept as it is
direccionOf(propertyData) ==
    IF TypeOf(Prop(propertyData, "direccion")) = "object"
    THEN Prop(propertyData, "direccion")
    ELSE JObj(EmptyRec)

\* the top-level aliases read before the economic-data object
usoOfTopFirst(propertyData) ==
    Or(Or(Or(Prop(propertyData, "uso"), Prop(propertyData, "usoPrincipal")),
          Prop(economicosOf(propertyData), "uso")),
       JStr(Chars_V))

usoOf(propertyData) ==
    Or(Or(Or(Prop(economicosOf(propertyData), "uso"), Prop(propertyData, "uso")),
          Prop(propertyData, "usoPrincipal")),
       JStr(Chars_V))

propertyTypeOf(uso) == Or(Or(useLabel(uso), uso), JStr(Chars_Residencial))

surfaceStrOf(propertyData) ==
    Or(Or(Or(Or(Prop(economicosOf(propertyData), "superficieConstruida"),
                Prop(economicosOf(propertyData), "superficie")),
             Prop(propertyData, "superficie")),
          Prop(propertyData, "superficieConstruida")),
       JStr(Chars_100))

\* parseInt(String(surfaceStr).replace(',', '.'), 10) || 100
parsedSurfaceOf(surfaceStr) ==
    Or(parseIntChars(replaceComma(StringOf(surfaceStr))), JInt(100))

yearStrOf(propertyData) ==
    Or(Or(Or(Or(Prop(economicosOf(propertyData), "an~oConstruccion"),
                Prop(economicosOf(propertyData), "anoConstruccion")),
             Prop(propertyData, "anoConstruccion")),
          Prop(propertyData, "ano")),
       JStr(Chars_2000))

\* parseInt(String(yearStr), 10) || 2000
parsedYearOf(yearStr) == Or(parseIntChars(StringOf(yearStr)), JInt(2000))

\* data.numeroInmuebles > 1, the operand converted to a number
MoreThanOne(v) ==
    CASE Kind(v) = "number" -> v[2] > 10
      [] Kind(v) = "string" ->
           LET n == parseFloat(v) IN Kind(n) = "number" /\ n[2] > 10
      [] OTHER -> FALSE

\* the number of entries of the unit list looked at as well
buildingTypeOfCountingList(propertyData, data) ==
    Or(IF TypeOf(Prop(propertyData, "tipoInmueble")) = "string"
       THEN Prop(propertyData, "tipoInmueble") ELSE JStr(<<>>),
       IF MoreThanOne(Prop(data, "numeroInmuebles"))
          \/ (Kind(Prop(data, "inmuebles")) = "array" /\ Len(Prop(data, "inmuebles")[2]) > 1)
       THEN JStr(Chars_Plurifamiliar) ELSE JStr(Chars_Unifamiliar))

buildingTypeOf(propertyData, data) ==
    Or(IF TypeOf(Prop(propertyData, "tipoInmueble")) = "string"
       THEN Prop(propertyData, "tipoInmueble") ELSE JStr(<<>>),
       IF MoreThanOne(Prop(data, "numeroInmuebles"))
       THEN JStr(Chars_Plurifamiliar) ELSE JStr(Chars_Unifamiliar))

\* lines 293-306, for a propertyData and a direccion that are not null
CadastralDataOf(propertyData, data) ==
    LET direccion == direccionOf(propertyData)
    IN  [ cadastralReference |-> rcOf(rcValueOf(propertyData, data)),
          address |-> addressOf(propertyData),
          postalCode |-> Or(Or(Or(Prop(direccion, "codigoPostal"), Prop(direccion, "cp")),
                               Prop(propertyData, "codigoPostal")), JStr(<<>>)),
          municipality |-> Or(Or(Or(Prop(direccion, "nombreMunicipio"),
                                    Prop(direccion, "municipio")),
                                 Prop(propertyData, "municipio")), JStr(<<>>)),
          province |-> Or(Or(Or(Prop(direccion, "nombreProvincia"),
                                Prop(direccion, "provincia")),
                             Prop(propertyData, "provincia")), JStr(<<>>)),
          propertyType |-> propertyTypeOf(usoOf(propertyData)),
          buildingType |-> buildingTypeOf(propertyData, data),
          surface |-> parsedSurfaceOf(surfaceStrOf(propertyData)),
          constructionYear |-> parsedYearOf(yearStrOf(propertyData)),
          floors |-> IF Truthy(Prop(propertyData, "plantas"))
                     THEN parseInt(Prop(propertyData, "plantas")) ELSE JUndefined,
          latitude |-> IF Truthy(Prop(propertyData, "lat"))
                       THEN parseFloat(Prop(propertyData, "lat")) ELSE JUndefined,
          longitude |-> IF Truthy(Prop(propertyData, "lng"))
                        THEN parseFloat(Prop(propertyData, "lng")) ELSE JUndefined ]

parseCadastralResponse(data) ==
    IF ~Truthy(data) THEN Returned(JNull)
    ELSE IF Nullish(propertyDataOf(data)) THEN Thrown
    ELSE IF Nullish(direccionOf(propertyDataOf(data))) THEN Thrown
    ELSE Returned(JObj(CadastralDataOf(propertyDataOf(data), data)))

---------------------------------------------------------------------------
(* The unit selector: what handleSelectUnit(index) writes into the         *)
(* property attributes for the unit buildingUnits[index].                  *)

Chars_0 == <<"0">>

parseDatosEconomicos(inmueble) ==
    LET economicos == Or(Prop(inmueble, "datosEconomicos"), JObj(EmptyRec))
    IN  [ superficie |-> parseInt(Or(Or(Prop(economicos, "superficieConstruida"),
                                        Prop(economicos, "superficie")),
                                     JStr(Chars_0))),
          uso |-> Or(Prop(economicos, "uso"), JStr(Chars_Residencial)),
          ano |-> parseInt(Or(Or(Prop(economicos, "an~oConstruccion"),
                                 Prop(economicos, "anoConstruccion")),
                              JStr(Chars_0))) ]

getRCString(inmueble) ==
    LET rc == Prop(inmueble, "referenciaCatastral")
    IN  IF TypeOf(rc) = "string" THEN rc
        ELSE IF Truthy(rc) /\ TypeOf(rc) = "object"
        THEN Or(Prop(rc, "referenciaCatastral"),
                JStr(PartText(Prop(rc, "pc1")) \o PartText(Prop(rc, "pc2"))
                     \o PartText(Prop(rc, "car")) \o PartText(Prop(rc, "cc1"))
                     \o PartText(Prop(rc, "cc2"))))
        ELSE JStr(<<>>)

\* the argument of updatePropertyData; storePostalCode is
\* propertyData.postalCode of the store
handleSelectUnit(inmueble, storePostalCode) ==
    IF Nullish(inmueble) THEN Thrown
    ELSE Returned(JObj(
           [ cadastralReference |-> getRCString(inmueble),
             surface |-> parseDatosEconomicos(inmueble).superficie,
             constructionYear |-> parseDatosEconomicos(inmueble).ano,
             propertyType |-> parseDatosEconomicos(inmueble).uso,
             postalCode |-> Or(Prop(Or(Prop(inmueble, "direccion"), JObj(EmptyRec)),
                                    "codigoPostal"),
                               storePostalCode) ]))

---------------------------------------------------------------------------
(* Registry responses                                                      *)

\* { inmuebles: [u], numeroInmuebles: 1 }
OneUnit(u) ==
    JObj(Merge(Single("inmuebles", JArr(<<u>>)), Single("numeroInmuebles", JInt(1))))

\* an object given at the top level and as the only unit of a list
BothPlacements(S) == {JObj(f) : f \in S} \cup {OneUnit(JObj(f)) : f \in S}

Chars_ref == <<"9", "8", "7", "2", "0", "2", "3", "V", "H", "5", "7", "9", "7">>

\* values of the wrong kind for a member
OddValues ==
    {JNull, JInt(0), JInt(5), JStr(<<>>), JStr(<<"x">>), JObj(EmptyRec), JArr(<<>>), JArr(<<JNull>>)}

OddMembers ==
    {"rc", "referenciaCatastral", "direccion", "domicilio", "datosEconomicos", "uso",
     "superficie", "ano", "tipoInmueble", "plantas", "lat", "numeroInmuebles", "inmuebles"}

\* responses that are no object, and objects with one member of the wrong kind
MalformedInputs ==
    {JUndefined, JNull, JStr(<<>>), JInt(0), JInt(5), JStr(<<"a", "b", "c">>), JArr(<<>>), JObj(EmptyRec)}
    \cup BothPlacements({Single(m, v) : m \in OddMembers, v \in OddValues})
    \cup {JObj(Single("inmuebles", JArr(<<JNull, JObj(EmptyRec)>>))),
          JObj(Single("inmuebles", JStr(<<"a", "b">>)))}

\* the reference as an object of parts, with or without the whole text in it
ReferenceObjects ==
    {JObj(Merge(Merge(Merge(Merge(Merge(w, a), b), c), d), e)) :
        w \in FieldOpts("referenciaCatastral", {JStr(Chars_ref)}),
        a \in FieldOpts("pc1", {JStr(<<"9", "8">>), JInt(98)}),
        b \in FieldOpts("pc2", {JStr(<<"7", "2", "0", "2", "3">>)}),
        c \in FieldOpts("car", {JStr(<<"V", "H">>)}),
        d \in FieldOpts("cc1", {JStr(<<"5", "7">>)}),
        e \in FieldOpts("cc2", {JStr(<<"9", "7">>)})}

ReferenceValues ==
    ReferenceObjects \cup {JStr(Chars_ref), JStr(<<"0", "0", "0", "1", "W", "X">>), JStr(<<>>), JNull, JInt(98)}

ReferenceInputs ==
    BothPlacements({Single(m, v) : m \in {"rc", "referenciaCatastral"}, v \in ReferenceValues})
    \cup {JObj(Merge(Merge(a, b), Single("rc", JStr(<<"0", "0", "0", "1", "W", "X">>)))) :
            a \in {Single("inmuebles", JArr(<<u>>)) :
                      u \in {JObj(EmptyRec), JObj(Single("rc", JStr(Chars_ref)))}},
            b \in FieldOpts("referenciaCatastral", {JStr(Chars_ref)})}

SurfaceValues == {JStr(<<"8", "5", ",", "5">>), JStr(<<"a", "b", "c">>), JInt(90), JStr(<<"0">>)}

\* the four surface members, each absent or given
SurfaceInputs ==
    BothPlacements(
        {Merge(Merge(IF Merge(e, f) = EmptyRec THEN EmptyRec
                     ELSE Single("datosEconomicos", JObj(Merge(e, f))), g), h) :
            e \in FieldOpts("superficieConstruida", SurfaceValues),
            f \in FieldOpts("superficie", SurfaceValues),
            g \in FieldOpts("superficie", SurfaceValues),
            h \in FieldOpts("superficieConstruida", SurfaceValues)})
    \cup BothPlacements(
        {Single("superficie", v) :
            v \in {JStr(<<"1", "2", "0">>), JStr(<<"1", "2", "0", ".", "5">>), JNum(855), JStr(<<"1", ",", "2", "3", "4", ",", "5">>), JStr(<<"-", "5">>), JStr(<<" ", "7", "5">>), JStr(<<>>)}})

UseValues == {JStr(<<"V">>), JStr(<<"C">>), JStr(<<"X">>), JStr(<<>>)}

\* the three use members, each absent or given, and every code of the table
UseInputs ==
    BothPlacements(
        {Merge(Merge(IF e = EmptyRec THEN EmptyRec ELSE Single("datosEconomicos", JObj(e)), g), h) :
            e \in FieldOpts("uso", UseValues),
            g \in FieldOpts("uso", UseValues),
            h \in FieldOpts("usoPrincipal", UseValues)})
    \cup {JObj(Single("uso", JStr(<<code>>))) : code \in DOMAIN useMapping}
    \cup {JObj(Single("uso", JStr(<<"X", "Y">>)))}

\* the type member, the reported number of units and the unit list
TypeInputs ==
    {JObj(Merge(Merge(t, n), l)) :
        t \in FieldOpts("tipoInmueble", {JStr(<<>>), JStr(<<"A", "d", "o", "s", "a", "d", "o">>), JInt(5)}),
        n \in FieldOpts("numeroInmuebles", {JInt(0), JInt(1), JInt(2), JStr(<<"2">>)}),
        l \in FieldOpts("inmuebles",
                        {JArr(<<>>), JArr(<<JObj(EmptyRec)>>),
                         JArr(<<JObj(EmptyRec), JObj(EmptyRec)>>),
                         JArr(<<JObj(Single("tipoInmueble", JStr(<<"A", "d", "o", "s", "a", "d", "o">>))), JObj(EmptyRec)>>)})}

\* units as the selector lists them
UnitInputs ==
    {JObj(Merge(Merge(IF Merge(Merge(s, u), y) = EmptyRec THEN EmptyRec
                      ELSE Single("datosEconomicos", JObj(Merge(Merge(s, u), y))), r), d)) :
        s \in FieldOpts("superficieConstruida", {JStr(<<"8", "5">>), JStr(<<"a", "b", "c">>), JInt(90)}),
        u \in FieldOpts("uso", {JStr(<<"V">>), JStr(Chars_Residencial), JStr(<<"X">>)}),
        y \in FieldOpts("an~oConstruccion", {JStr(<<"1", "9", "7", "5">>), JInt(1990)}),
        r \in FieldOpts("referenciaCatastral",
                        {JStr(Chars_ref),
                         JObj(Merge(Single("pc1", JStr(<<"9", "8">>)), Single("pc2", JStr(<<"7", "2", "0", "2", "3">>))))}),
        d \in FieldOpts("direccion", {JObj(Single("codigoPostal", JStr(Str28014)))})}

UnitListInputs ==
    {OneUnit(u) : u \in UnitInputs}
    \cup {JObj(Merge(Single("inmuebles", JArr(<<JObj(EmptyRec), u>>)),
                     Single("numeroInmuebles", JInt(2)))) :
            u \in {JNull, JObj(Single("datosEconomicos", JObj(Single("uso", JStr(<<"C">>)))))}}

ResponseInputs ==
    MalformedInputs \cup ReferenceInputs \cup SurfaceInputs \cup UseInputs
    \cup TypeInputs \cup UnitListInputs

---------------------------------------------------------------------------
(* The normalizer and the unit selector applied to a response              *)

InitCadastre ==
    /\ property = EmptyRec
    /\ calls = <<>>
    /\ currentYear = BaseYear
    /\ extrasArg = <<>>
    /\ extrasRun = <<>>
    /\ AdjustmentsIdle
    /\ WizardIdle
    /\ response \in ResponseInputs
    /\ parsed = <<>>
    /\ selected = <<>>
    /\ fetched = <<>>

\* parseCadastralResponse(data)
Parse ==
    /\ parsed = <<>>
    /\ parsed' = <<parseCadastralResponse(response)>>
    /\ UNCHANGED <<property, calls, currentYear, extrasArg, extrasRun, adjVars, wizVars,
                   response, selected, fetched>>

\* the units the selector lists: data.inmuebles || []
buildingUnits(data) ==
    IF Nullish(data) \/ Kind(Prop(data, "inmuebles")) # "array" THEN <<>>
    ELSE Prop(data, "inmuebles")[2]

\* handleSelectUnit(index), index counted from 1; the store holds the
\* initial postal code ''
SelectUnit(index) ==
    /\ index \in 1..Len(buildingUnits(response))
    /\ selected' = <<[index |-> index,
                      outcome |-> handleSelectUnit(buildingUnits(response)[index],
                                                   JStr(<<>>))]>>
    /\ UNCHANGED <<property, calls, currentYear, extrasArg, extrasRun, adjVars, wizVars,
                   response, parsed, fetched>>

NextCadastre == Parse \/ \E index \in 1..MaxUnits : SelectUnit(index)

CadastralSpec == InitCadastre /\ [][NextCadastre]_vars

---------------------------------------------------------------------------
(* The two lookups of the cadastral client. A lookup is given what its     *)
(* surroundings decide: whether the API key is configured, how each HTTP   *)
(* exchange ends (fetch throws, a non-OK status, a body that is no JSON,   *)
(* or an OK status with a JSON body) and the draws of Math.random.         *)

Resolved(v) == [settled |-> "resolved", value |-> v]

Rejected == [settled |-> "rejected", value |-> JUndefined]

Exchange(status, body) == [status |-> status, body |-> body]

\* text padded with zeros on the left to 7 characters
padStart7(d) ==
    IF Len(d) >= 7 THEN d
    ELSE [i \in 1..7 |-> IF i <= 7 - Len(d) THEN "0" ELSE d[i - (7 - Len(d))]]

\* Math.abs(Math.floor((lat * 10000 + lng * 10000) mod 10000000)), the
\* coordinates given in tenths of a degree
coordHash(lat, lng) ==
    LET x == lat * 1000 + lng * 1000
    IN  (IF x < 0 THEN -x ELSE x) % 10000000

\* the city of the placeholder; at tenths of a degree no latitude lies
\* strictly between 39.4 and 39.5, so the last branch is never taken
mockCity(lat, lng) ==
    IF lat > 413 /\ lat < 415 /\ lng > 20 /\ lng < 23 THEN "Barcelona"
    ELSE IF lat > 373 /\ lat < 375 /\ lng > -60 /\ lng < -58 THEN "Sevilla"
    ELSE IF lat > 394 /\ lat < 395 /\ lng > -4 /\ lng < -3 THEN "Valencia"
    ELSE "Madrid"

Chars_city ==
    [c \in {"Madrid", "Barcelona", "Sevilla", "Valencia"} |->
        CASE c = "Madrid" -> <<"M", "a", "d", "r", "i", "d">>
          [] c = "Barcelona" -> <<"B", "a", "r", "c", "e", "l", "o", "n", "a">>
          [] c = "Sevilla" -> <<"S", "e", "v", "i", "l", "l", "a">>
          [] c = "Valencia" -> <<"V", "a", "l", "e", "n", "c", "i", "a">>]

Chars_cityCode ==
    [c \in {"Madrid", "Barcelona", "Sevilla", "Valencia"} |->
        CASE c = "Madrid" -> <<"2", "8", "0", "0", "1">>
          [] c = "Barcelona" -> <<"0", "8", "0", "0", "1">>
          [] c = "Sevilla" -> <<"4", "1", "0", "0", "1">>
          [] c = "Valencia" -> <<"4", "6", "0", "0", "1">>]

Chars_Alcala == <<"C", "a", "l", "l", "e", " ", "d", "e", " ", "A", "l", "c", "a", "l", "a", ",", " ", "4", "2">>

\* draw1 and draw2 are Math.floor(Math.random() * 60) and
\* Math.floor(Math.random() * 40)
getMockCadastralData(lat, lng, draw1, draw2) ==
    JObj([ cadastralReference |->
               JStr(padStart7(ToDigits(coordHash(lat, lng))) \o <<"V", "H", "5", "7", "9", "7", "S", "0", "0", "0", "1", "W", "X">>),
           address |-> JStr(Chars_Alcala),
           postalCode |-> JStr(Chars_cityCode[mockCity(lat, lng)]),
           municipality |-> JStr(Chars_city[mockCity(lat, lng)]),
           province |-> JStr(Chars_city[mockCity(lat, lng)]),
           propertyType |-> JStr(Chars_Residencial),
           buildingType |-> JStr(Chars_Plurifamiliar),
           surface |-> JInt(95 + draw1),
           constructionYear |-> JInt(1980 + draw2),
           latitude |-> JNum(lat),
           longitude |-> JNum(lng) ])

getMockCadastralDataByRC(rc) ==
    JObj([ cadastralReference |-> rc,
           address |-> JStr(Chars_Alcala),
           postalCode |-> JStr(Str28014),
           municipality |-> JStr(Chars_city["Madrid"]),
           province |-> JStr(Chars_city["Madrid"]),
           propertyType |-> JStr(Chars_Residencial),
           buildingType |-> JStr(Chars_Plurifamiliar),
           surface |-> JInt(120),
           constructionYear |-> JInt(1995) ])

\* the failures of the exchange passed on to the caller
getCadastralDataByReferenceUncaught(apiKey, exchange, cadastralReference) ==
    IF ~apiKey THEN Resolved(getMockCadastralDataByRC(cadastralReference))
    ELSE IF exchange.status # "ok" THEN Rejected
    ELSE IF parseCadastralResponse(exchange.body).threw THEN Rejected
    ELSE Resolved(parseCadastralResponse(exchange.body).value)

getCadastralDataByReference(apiKey, exchange, cadastralReference) ==
    IF ~apiKey THEN Resolved(getMockCadastralDataByRC(cadastralReference))
    ELSE IF exchange.status # "ok"
    THEN Resolved(getMockCadastralDataByRC(cadastralReference))
    ELSE IF parseCadastralResponse(exchange.body).threw
    THEN Resolved(getMockCadastralDataByRC(cadastralReference))
    ELSE Resolved(parseCadastralResponse(exchange.body).value)

\* the first entry of list v; reading a member of a null entry raises
firstRef(v, members) ==
    IF Nullish(First(v)) THEN Thrown
    ELSE Returned(IF Len(members) = 3
                  THEN Or(Or(Or(Prop(First(v), members[1]), Prop(First(v), members[2])),
                             Prop(First(v), members[3])), JNull)
                  ELSE Or(Or(Prop(First(v), members[1]), Prop(First(v), members[2])), JNull))

\* lines 66-79: the reference in the body of the first exchange
cadastralRefOf(rcData) ==
    IF Nullish(rcData) THEN Thrown
    ELSE IF Truthy(Prop(rcData, "referencias")) /\ HasElements(Prop(rcData, "referencias"))
    THEN firstRef(Prop(rcData, "referencias"), <<"rc", "referenciaCatastral", "refCatastral">>)
    ELSE IF Truthy(Prop(rcData, "coordenadas")) /\ HasElements(Prop(rcData, "coordenadas"))
    THEN firstRef(Prop(rcData, "coordenadas"), <<"referenciaCatastral", "rc">>)
    ELSE Returned(Or(Or(Or(Prop(rcData, "rc"), Prop(rcData, "referenciaCatastral")),
                        Prop(rcData, "refCatastral")), JNull))

getCadastralDataByCoordinates(apiKey, first, second, lat, lng, draw1, draw2) ==
    IF ~apiKey THEN Resolved(getMockCadastralData(lat, lng, draw1, draw2))
    ELSE IF first.status # "ok" THEN Resolved(getMockCadastralData(lat, lng, draw1, draw2))
    ELSE IF cadastralRefOf(first.body).threw
    THEN Resolved(getMockCadastralData(lat, lng, draw1, draw2))
    ELSE IF ~Truthy(cadastralRefOf(first.body).value)
    THEN Resolved(getMockCadastralData(lat, lng, draw1, draw2))
    ELSE getCadastralDataByReference(apiKey, second, cadastralRefOf(first.body).value)

---------------------------------------------------------------------------
(* One lookup run against the registry                                     *)

\* how an exchange can end, given the body an OK status would carry
Exchanges(bodies) ==
    {Exchange(st, JUndefined) : st \in {"throws", "notOk", "invalidBody"}}
    \cup {Exchange("ok", b) : b \in bodies}

\* bodies of the coordinates lookup
ReferenceBodies ==
    {JNull, JObj(EmptyRec),
     JObj(Single("referencias", JArr(<<>>))),
     JObj(Single("referencias", JArr(<<JNull>>))),
     JObj(Single("referencias", JArr(<<JObj(EmptyRec)>>))),
     JObj(Single("referencias", JArr(<<JObj(Single("rc", JStr(Chars_ref)))>>))),
     JObj(Single("coordenadas", JArr(<<JObj(Single("referenciaCatastral", JStr(Chars_ref)))>>))),
     JObj(Single("refCatastral", JStr(Chars_ref)))}

\* bodies of the reference lookup
PropertyBodies ==
    {JNull, JObj(EmptyRec), JObj(Single("direccion", JNull)),
     JObj(Single("inmuebles", JArr(<<JNull>>))),
     JObj(Merge(Single("rc", JStr(Chars_ref)), Single("superficie", JStr(<<"8", "5">>)))),
     OneUnit(JObj(Single("datosEconomicos", JObj(Single("uso", JStr(<<"V">>))))))}

\* tenths of a degree: Madrid, Barcelona, Sevilla
Coordinates == {<<404, -37>>, <<414, 21>>, <<374, -59>>}

Draws1 == {0, 59}
Draws2 == {0, 39}

InitRegistry ==
    /\ property = EmptyRec
    /\ calls = <<>>
    /\ currentYear = BaseYear
    /\ extrasArg = <<>>
    /\ extrasRun = <<>>
    /\ AdjustmentsIdle
    /\ WizardIdle
    /\ response \in PropertyBodies
    /\ parsed = <<>>
    /\ selected = <<>>
    /\ fetched = <<>>

\* await getCadastralDataByReference(cadastralReference); the registry
\* would answer an OK exchange with the body `response`
LookupByReference(apiKey, exchange) ==
    /\ fetched = <<>>
    /\ fetched' = <<[fn |-> "byReference", apiKey |-> apiKey,
                     first |-> Exchange("none", JUndefined), second |-> exchange,
                     outcome |-> getCadastralDataByReference(apiKey, exchange,
                                                             JStr(Chars_ref))]>>
    /\ UNCHANGED <<property, calls, currentYear, extrasArg, extrasRun, adjVars, wizVars,
                   response, parsed, selected>>

\* await getCadastralDataByCoordinates(latitude, longitude)
LookupByCoordinates(apiKey, first, second, at, draw1, draw2) ==
    /\ fetched = <<>>
    /\ fetched' = <<[fn |-> "byCoordinates", apiKey |-> apiKey,
                     first |-> first, second |-> second,
                     outcome |-> getCadastralDataByCoordinates(apiKey, first, second,
                                                               at[1], at[2], draw1, draw2)]>>
    /\ UNCHANGED <<property, calls, currentYear, extrasArg, extrasRun, adjVars, wizVars,
                   response, parsed, selected>>

NextRegistry ==
    \/ \E apiKey \in BOOLEAN, exchange \in Exchanges({response}) :
          LookupByReference(apiKey, exchange)
    \/ \E apiKey \in BOOLEAN, first \in Exchanges(ReferenceBodies),
          second \in Exchanges({response}), at \in Coordinates,
          draw1 \in Draws1, draw2 \in Draws2 :
          LookupByCoordinates(apiKey, first, second, at, draw1, draw2)

RegistrySpec == InitRegistry /\ [][NextRegistry]_vars

---------------------------------------------------------------------------
(* The objects the core can reach, and what its exported operations leave  *)
(* of them.  The price table is the module constant `prices`; an attribute *)
(* set and a registry response are handed in by the caller.                *)

EngineIdle ==
    /\ property = EmptyRec
    /\ calls = <<>>
    /\ extrasArg = <<>>
    /\ extrasRun = <<>>

engineVars == <<property, calls, extrasArg, extrasRun>>

\* const prices = pricesData as PricesDatabase
prices == [zones |-> zones, defaults |-> defaults]

Objects(p, data) == [prices |-> prices, property |-> p, data |-> data]

\* a variant of the engine that stores the surface default in its argument
objectsAfterDefaulting(op, objects) ==
    IF op = "calculateValuation"
    THEN [objects EXCEPT !.property =
            [f \in DOMAIN @ \cup {"surface"} |->
                IF f = "surface" THEN surfaceOf(@) ELSE @[f]]]
    ELSE objects

\* The objects after a call of an exported operation.  The bodies assign to
\* their own locals only (totalAdjustment, score, the fresh result objects):
\* no member of `prices`, of the attribute set or of the response is the
\* target of an assignment, and no mutating method is called on them.
objectsAfter(op, objects) == objects

\* what a call hands back: a fresh value, or a reference into `prices`
Fresh(v) == [alias |-> <<>>, value |-> <<v>>]

Alias(path) == [alias |-> path, value |-> <<>>]

\* return prices.zones[postalCode] || null
getZoneInfo(postalCode) ==
    IF zoneIndex(postalCode) = {} THEN Fresh("null")
    ELSE Alias(<<"prices", "zones", FirstIndex(zoneIndex(postalCode))>>)

\* return prices.zones
getAllZones == Alias(<<"prices", "zones">>)

Called(op, returned) ==
    [ objects |-> objectsAfter(op, heap.objects),
      given |-> heap.given,
      op |-> op,
      returned |-> returned ]

\* a postal code the table holds and one it does not
ZoneCodes == {Str28014, Str28099}

InitCore ==
    /\ EngineIdle
    /\ currentYear = BaseYear
    /\ AdjustmentsIdle
    /\ CadastreIdle
    /\ StoreIdle
    /\ \E objects \in {Objects(p, JUndefined) : p \in PropertyInputs}
                      \cup {Objects(EmptyRec, d) : d \in ResponseInputs} :
          heap = [objects |-> objects, given |-> objects, op |-> "", returned |-> Fresh("")]

coreFrame == <<engineVars, currentYear, adjVars, cadVars, store, history, mount,
               pending, outbox>>

CallCalculateValuation ==
    /\ heap' = Called("calculateValuation",
                      Fresh(calculateValuation(heap.objects.property, currentYear)))
    /\ UNCHANGED coreFrame

CallGetZoneInfo(postalCode) ==
    /\ heap' = Called("getZoneInfo", getZoneInfo(postalCode))
    /\ UNCHANGED coreFrame

CallGetAllZones ==
    /\ heap' = Called("getAllZones", getAllZones)
    /\ UNCHANGED coreFrame

\* the normalizer, reached through the exported registry lookups
CallParseCadastralResponse ==
    /\ heap' = Called("parseCadastralResponse",
                      Fresh(parseCadastralResponse(heap.objects.data)))
    /\ UNCHANGED coreFrame

NextCore ==
    \/ CallCalculateValuation
    \/ \E postalCode \in ZoneCodes : CallGetZoneInfo(postalCode)
    \/ CallGetAllZones
    \/ CallParseCadastralResponse

CoreSpec == InitCore /\ [][NextCore]_vars

---------------------------------------------------------------------------
(* The wizard: routes (App.tsx), the shared store (valuationStore.ts) and  *)
(* the screens' handlers.  A location is the sequence of the segments of   *)
(* its path; null is the empty tuple.  Strings of the attribute set are    *)
(* written as the engine reads them (sequences of characters for           *)
(* postalCode, city, cadastralReference and the two types).                *)

\* the slug of the agent whose link the visitor opened; the only client the
\* back end knows
Slug == "fabian"

Clients == {Slug}

Steps ==
    {"detalles", "seleccionar-vivienda", "verificar", "habitaciones", "extras",
     "acabados", "datos", "resultado"}

\* the screen App's routes render for a location: "/v/:token", "/:slug/*"
\* with the child routes of ValoradorContent, "/"
screenOf(location) ==
    IF location = <<>> THEN "generic"
    ELSE IF location[1] = "v" /\ Len(location) = 2 THEN "report"
    ELSE IF location[1] \notin Clients THEN "notFound"
    ELSE IF Len(location) = 1 THEN "index"
    ELSE IF Len(location) = 2 /\ location[2] \in Steps THEN location[2]
    ELSE "index"

\* useParams().slug of the route "/:slug/*"
slugOf(location) == IF location = <<>> THEN "" ELSE location[1]

\* navigateTo(path) of useValoradorNavigation: `/${slug}` or `/${slug}/${path}`
navigateTo(slug, path) == IF path = "" THEN <<slug>> ELSE <<slug, path>>

\* navigate('/' + path) of react-router: an absolute path of one segment
absolutePath(path) == <<path>>

initialPropertyData ==
    [ address |-> "", city |-> <<>>, postalCode |-> <<>>, cadastralReference |-> <<>>,
      propertyType |-> Chars_Residencial, buildingType |-> Chars_Plurifamiliar,
      surface |-> 100, constructionYear |-> 2000, bedrooms |-> 3, bathrooms |-> 2,
      extras |-> <<>>, finishQuality |-> "good" ]

initialStore ==
    [ currentStep |-> 1,
      propertyData |-> initialPropertyData,
      valuationResult |-> <<>>,
      userContact |-> <<>>,
      isLoadingCatastro |-> FALSE,
      isLoadingStreetView |-> FALSE,
      isLoadingValuation |-> FALSE,
      buildingUnits |-> <<>>,
      selectedUnitIndex |-> <<>>,
      leadData |-> <<>>,
      savedValuationToken |-> <<>> ]

\* the session: the store with the browser history, the mounted screen's own
\* state, the asynchronous work in flight and the requests sent
Session == [store |-> store, history |-> history, mount |-> mount,
            pending |-> pending, outbox |-> outbox]

Becomes(w) ==
    /\ store' = w.store
    /\ history' = w.history
    /\ mount' = w.mount
    /\ pending' = w.pending
    /\ outbox' = w.outbox

\* set((state) => ({ propertyData: { ...state.propertyData, ...data } }))
updatePropertyData(w, data) == [w EXCEPT !.store.propertyData = Merge(@, data)]

\* reset: () => set({ currentStep, propertyData, valuationResult, userContact,
\* buildingUnits, selectedUnitIndex, leadData, savedValuationToken })
reset(w) ==
    [w EXCEPT !.store =
        [@ EXCEPT !.currentStep = 1,
                  !.propertyData = initialPropertyData,
                  !.valuationResult = <<>>,
                  !.userContact = <<>>,
                  !.buildingUnits = <<>>,
                  !.selectedUnitIndex = <<>>,
                  !.leadData = <<>>,
                  !.savedValuationToken = <<>>]]

\* the location the browser shows
locationOf(w) == IF w.history = <<>> THEN <<>> ELSE w.history[Len(w.history)]

Location == IF history = <<>> THEN <<>> ELSE history[Len(history)]

Screen == screenOf(Location)

---------------------------------------------------------------------------
(* What lies outside the program: the addresses the search offers, the     *)
(* registry's answers for them and the records the back end hands out.     *)

Places == {"A", "B"}

Chars_41001 == <<"4", "1", "0", "0", "1">>
Chars_Sevilla == <<"S", "e", "v", "i", "l", "l", "a">>
Chars_refA == <<"1", "1", "1", "1", "A">>
Chars_refA1 == <<"1", "1", "1", "1", "A", "0", "1">>
Chars_refA2 == <<"1", "1", "1", "1", "A", "0", "2">>
Chars_refB == <<"2", "2", "2", "2", "B">>

\* getPlaceDetails(prediction.placeId) with prediction.mainText: A is a
\* block of flats in Madrid, B a detached house in Sevilla
placeDetails(place) ==
    IF place = "A"
    THEN [mainText |-> "Calle Mayor 1", locality |-> StrMadrid, postalCode |-> Str28014,
          latitude |-> 404, longitude |-> -37]
    ELSE [mainText |-> "Calle Sierpes 2", locality |-> Chars_Sevilla,
          postalCode |-> Chars_41001, latitude |-> 374, longitude |-> -59]

\* what getCadastralDataByCoordinates(lat, lng) resolves to: the normalized
\* record of the parcel, null (<<>>) where the registry has none
cadastralDataAt(lat, lng) ==
    IF lat = 404 /\ lng = -37
    THEN <<[cadastralReference |-> Chars_refA, postalCode |-> Str28014,
            propertyType |-> Chars_Residencial, buildingType |-> Chars_Plurifamiliar,
            surface |-> 80, constructionYear |-> 1970]>>
    ELSE IF lat = 374 /\ lng = -59
    THEN <<[cadastralReference |-> Chars_refB, postalCode |-> Chars_41001,
            propertyType |-> Chars_Residencial, buildingType |-> Chars_Unifamiliar,
            surface |-> 150, constructionYear |-> 2010]>>
    ELSE <<>>

RegistryUnit(rc, superficie, ano) ==
    JObj([referenciaCatastral |-> JStr(rc),
          datosEconomicos |-> JObj([superficieConstruida |-> JStr(ToDigits(superficie)),
                                    uso |-> JStr(Chars_V),
                                    anoConstruccion |-> JStr(ToDigits(ano))])])

\* what getBuildingUnits(buildingRC) resolves to
getBuildingUnits(buildingRC) ==
    IF buildingRC = Chars_refA
    THEN [inmuebles |-> <<RegistryUnit(Chars_refA1, 60, 1970),
                          RegistryUnit(Chars_refA2, 90, 1970)>>,
          numeroInmuebles |-> 2]
    ELSE IF buildingRC = Chars_refB
    THEN [inmuebles |-> <<RegistryUnit(Chars_refB, 150, 2010)>>, numeroInmuebles |-> 1]
    ELSE [inmuebles |-> <<>>, numeroInmuebles |-> 0]

\* the client the context has loaded for the slug
TheClient == [id |-> "c1", slug |-> Slug]

Leads == {[name |-> "Ana", email |-> "ana@example.com"]}

Tokens == {"tk1", "tk2"}

---------------------------------------------------------------------------
(* Mounting a screen and the effects that run with it                      *)

\* the state a screen's component starts with: cadastralData (useState) of
\* PropertyDetails, hasSaved (useRef) and the last render's view of
\* ValuationResult
FreshMount == [cadastralData |-> <<>>, hasSaved |-> FALSE, view |-> <<>>]

\* what a render of ValuationResult reads: the members of the effect's
\* dependency list that are data
viewOf(w, client) ==
    [ propertyData |-> w.store.propertyData,
      valuationResult |-> w.store.valuationResult,
      leadData |-> w.store.leadData,
      client |-> client ]

\* fetchData of PropertyDetails up to its first await; with no await on the
\* path (first and last branch) it runs to the end, finally included
fetchData(w) ==
    LET p == w.store.propertyData
    IN  IF w.store.selectedUnitIndex # <<>> /\ TruthyStr(Get(p, "cadastralReference"))
        THEN [w EXCEPT !.mount.cadastralData =
                <<[cadastralReference |-> p.cadastralReference,
                   postalCode |-> p.postalCode,
                   propertyType |-> p.propertyType,
                   buildingType |-> p.buildingType,
                   surface |-> OrNum(Get(p, "surface"), 100),
                   constructionYear |-> OrNum(Get(p, "constructionYear"), 2000)]>>,
                      !.store.isLoadingCatastro = FALSE]
        ELSE IF TruthyNum(Get(p, "latitude")) /\ TruthyNum(Get(p, "longitude"))
        THEN [w EXCEPT !.store.isLoadingCatastro = TRUE,
                       !.pending = @ \cup {[kind |-> "fetchData", live |-> TRUE,
                                            latitude |-> p.latitude,
                                            longitude |-> p.longitude,
                                            postalCode |-> p.postalCode]}]
        ELSE LET mockData == [cadastralReference |-> Chars_ref,
                              postalCode |-> IF TruthyStr(Get(p, "postalCode"))
                                             THEN p.postalCode ELSE Str28014,
                              propertyType |-> Chars_Residencial,
                              buildingType |-> Chars_Plurifamiliar,
                              surface |-> 120, constructionYear |-> 1995]
             IN  updatePropertyData(
                     [w EXCEPT !.mount.cadastralData = <<mockData>>,
                               !.store.isLoadingCatastro = FALSE],
                     Restrict(mockData, {"cadastralReference", "propertyType",
                                         "buildingType", "surface", "constructionYear"}))

\* fetchData after the await of getCadastralDataByCoordinates: c is the
\* suspended call; setCadastralData reaches only the component that started it
fetchDataResumed(w, c) ==
    LET data == cadastralDataAt(c.latitude, c.longitude)
        rest == [w EXCEPT !.pending = @ \ {c}]
        shown == IF c.live THEN [rest EXCEPT !.mount.cadastralData = data] ELSE rest
        stored == IF data = <<>> THEN shown
                  ELSE updatePropertyData(shown,
                         Restrict(data[1],
                                  {"cadastralReference", "propertyType", "buildingType",
                                   "surface", "constructionYear"}
                                  \cup (IF c.postalCode # <<>> THEN {} ELSE {"postalCode"})))
    IN  [stored EXCEPT !.store.isLoadingCatastro = FALSE]

\* function getSmartDefaults(surface)
getSmartDefaults(surface) ==
    IF surface < 40 THEN [bedrooms |-> 1, bathrooms |-> 1]
    ELSE IF surface < 60 THEN [bedrooms |-> 2, bathrooms |-> 1]
    ELSE IF surface < 80 THEN [bedrooms |-> 2, bathrooms |-> 1]
    ELSE IF surface < 100 THEN [bedrooms |-> 3, bathrooms |-> 1]
    ELSE IF surface < 120 THEN [bedrooms |-> 3, bathrooms |-> 2]
    ELSE IF surface < 150 THEN [bedrooms |-> 4, bathrooms |-> 2]
    ELSE [bedrooms |-> 4, bathrooms |-> 3]

\* the mount effect of RoomsConfig
smartDefaultsEffect(w) ==
    LET p == w.store.propertyData
    IN  IF Get(p, "bedrooms") = <<3>> /\ Get(p, "bathrooms") = <<2>>
        THEN updatePropertyData(w, getSmartDefaults(OrNum(Get(p, "surface"), 100)))
        ELSE w

\* the arguments of saveValuation and of sendValuationEmail: the lead and the
\* client they were built from, the valuation and the link to the report
SaveRequest(view, result) ==
    [ client |-> view.client,
      leadData |-> view.leadData,
      address |-> view.propertyData.address,
      estimatedValueRecommended |-> result.estimated ]

EmailRequest(view, result, reportToken) ==
    [ leadData |-> view.leadData,
      estimatedValue |-> result.estimated,
      reportUrl |-> <<"https://valorador-online.vercel.app/v/", reportToken>> ]

\* a variant of the effect without the hasSaved reference
processValuationUnmarked(w, view, now) ==
    IF view.valuationResult # <<>> THEN w
    ELSE LET result == calculateValuation(view.propertyData, now)
             computed == [w EXCEPT !.store.isLoadingValuation = TRUE,
                                   !.store.valuationResult = <<result>>]
         IN  IF /\ view.leadData # <<>>
                /\ view.client # <<>>
                /\ TruthyTag(Get(view.client[1], "id"))
             THEN [computed EXCEPT
                     !.outbox.saves = Append(@, SaveRequest(view, result)),
                     !.pending = @ \cup {[kind |-> "saveValuation", live |-> TRUE,
                                          view |-> view, result |-> result]}]
             ELSE [computed EXCEPT !.store.isLoadingValuation = FALSE]

\* processValuation of ValuationResult up to the await of saveValuation, run
\* with the view of the render that scheduled it; without a save it runs to
\* the end
processValuation(w, view, now) ==
    IF view.valuationResult # <<>> THEN w
    ELSE LET result == calculateValuation(view.propertyData, now)
             computed == [w EXCEPT !.store.isLoadingValuation = TRUE,
                                   !.store.valuationResult = <<result>>]
         IN  IF /\ view.leadData # <<>>
                /\ view.client # <<>>
                /\ TruthyTag(Get(view.client[1], "id"))
                /\ ~w.mount.hasSaved
             THEN [computed EXCEPT
                     !.mount.hasSaved = TRUE,
                     !.outbox.saves = Append(@, SaveRequest(view, result)),
                     !.pending = @ \cup {[kind |-> "saveValuation", live |-> TRUE,
                                          view |-> view, result |-> result]}]
             ELSE [computed EXCEPT !.store.isLoadingValuation = FALSE]

\* a variant that sends the email whatever saveValuation resolved to
processValuationResumedAlways(w, c, saved) ==
    LET rest == [w EXCEPT !.pending = @ \ {c},
                          !.outbox.resolved = Append(@, saved)]
        reportToken == IF saved = <<>> THEN "" ELSE saved[1].reportToken
    IN  [rest EXCEPT !.outbox.emails = Append(@, EmailRequest(c.view, c.result, reportToken)),
                     !.store.isLoadingValuation = FALSE]

\* processValuation after the await: saved is null (<<>>) or the saved record
processValuationResumed(w, c, saved) ==
    LET rest == [w EXCEPT !.pending = @ \ {c},
                          !.outbox.resolved = Append(@, saved)]
        sent == IF saved = <<>> THEN rest
                ELSE [rest EXCEPT
                        !.store.savedValuationToken = <<saved[1].reportToken>>,
                        !.outbox.emails =
                            Append(@, EmailRequest(c.view, c.result, saved[1].reportToken))]
    IN  [sent EXCEPT !.store.isLoadingValuation = FALSE]

NoRequests == [saves |-> <<>>, resolved |-> <<>>, emails |-> <<>>]

\* the screen of the location is mounted and its mount effects run; the
\* work in flight outlives the screen that started it
mountScreen(w, now) ==
    LET screen == screenOf(locationOf(w))
        fresh == [w EXCEPT !.mount = FreshMount,
                           !.pending = {[c EXCEPT !.live = FALSE] : c \in @}]
    IN  IF screen = "detalles" THEN fetchData(fresh)
        ELSE IF screen = "habitaciones" THEN smartDefaultsEffect(fresh)
        ELSE IF screen = "resultado"
        THEN processValuation(
                 [fresh EXCEPT !.mount.view = <<viewOf(fresh, <<TheClient>>)>>],
                 viewOf(fresh, <<TheClient>>), now)
        ELSE fresh

\* navigate(to)
navigate(w, location, now) ==
    mountScreen([w EXCEPT !.history = Append(@, location)], now)

\* navigate(-1)
goBack(w, now) ==
    mountScreen([w EXCEPT !.history = SubSeq(@, 1, Len(@) - 1)], now)

---------------------------------------------------------------------------
(* The screens' handlers                                                   *)

\* handleResultClick of AddressSearch, its awaits resolved by the answers
\* above; slug is the one useValoradorNavigation read from the route
handleResultClick(w, place, slug, now) ==
    LET details == placeDetails(place)
        located == updatePropertyData(w,
                       [address |-> details.mainText, city |-> details.locality,
                        postalCode |-> details.postalCode,
                        latitude |-> details.latitude, longitude |-> details.longitude])
        cadastralData == cadastralDataAt(details.latitude, details.longitude)
        units == IF cadastralData = <<>> THEN getBuildingUnits(<<>>)
                 ELSE getBuildingUnits(substring0(cadastralData[1].cadastralReference, 14))
    IN  IF /\ details.latitude # 0
           /\ details.longitude # 0
           /\ cadastralData # <<>>
           /\ cadastralData[1].cadastralReference # <<>>
           /\ units.numeroInmuebles > 1
        THEN navigate(updatePropertyData(
                          [located EXCEPT !.store.buildingUnits = units.inmuebles],
                          [cadastralReference |-> cadastralData[1].cadastralReference]),
                      navigateTo(slug, "seleccionar-vivienda"), now)
        ELSE navigate(located, navigateTo(slug, "detalles"), now)

\* a number of the registry layer as the store holds it (NaN is falsy like 0)
NumberOf(v) == IF Kind(v) = "number" THEN v[2] \div 10 ELSE 0

\* handleSelectUnit(index) of UnitSelector, index counted from 1:
\* selectUnit(index), updatePropertyData({...}), navigate('/detalles')
selectUnitAndLeave(w, index, now) ==
    LET patch == handleSelectUnit(w.store.buildingUnits[index],
                                  JStr(w.store.propertyData.postalCode)).value[2]
    IN  navigate(updatePropertyData(
                     [w EXCEPT !.store.selectedUnitIndex = <<index>>],
                     [cadastralReference |-> StringOf(patch.cadastralReference),
                      surface |-> NumberOf(patch.surface),
                      constructionYear |-> NumberOf(patch.constructionYear),
                      propertyType |-> StringOf(patch.propertyType),
                      postalCode |-> StringOf(patch.postalCode)]),
                 absolutePath("detalles"), now)

\* handleContinue of PropertyDetails
handleContinue(w, slug, now) ==
    navigate(IF w.mount.cadastralData = <<>> THEN w
             ELSE updatePropertyData(w,
                      [surface |-> w.mount.cadastralData[1].surface,
                       constructionYear |-> w.mount.cadastralData[1].constructionYear]),
             navigateTo(slug, "verificar"), now)

Max(a, b) == IF a >= b THEN a ELSE b

\* a variant without the lower bound
handleSurfaceChangeUnbounded(w, delta) ==
    updatePropertyData(w,
        [surface |-> OrNum(Get(w.store.propertyData, "surface"), 120) + delta])

\* handleSurfaceChange(delta) of VerifyData
handleSurfaceChange(w, delta) ==
    updatePropertyData(w,
        [surface |-> Max(1, OrNum(Get(w.store.propertyData, "surface"), 120) + delta)])

\* handleYearChange(delta) of VerifyData
handleYearChange(w, delta) ==
    updatePropertyData(w,
        [constructionYear |->
            Max(1800, Min(2026, OrNum(Get(w.store.propertyData, "constructionYear"), 1995)
                                + delta))])

\* const rooms = propertyData.bedrooms || 3; const baths = propertyData.bathrooms || 2
displayedRooms(p) == OrNum(Get(p, "bedrooms"), 3)

displayedBaths(p) == OrNum(Get(p, "bathrooms"), 2)

\* the '-' and '+' buttons of RoomsConfig
lessBedrooms(w) ==
    updatePropertyData(w, [bedrooms |-> Max(0, displayedRooms(w.store.propertyData) - 1)])

moreBedrooms(w) ==
    updatePropertyData(w, [bedrooms |-> displayedRooms(w.store.propertyData) + 1])

lessBathrooms(w) ==
    updatePropertyData(w, [bathrooms |-> Max(0, displayedBaths(w.store.propertyData) - 1)])

moreBathrooms(w) ==
    updatePropertyData(w, [bathrooms |-> displayedBaths(w.store.propertyData) + 1])

\* the labels of EXTRAS_LIST, in its order
EXTRAS_LIST ==
    <<"Terraza", "Amueblado", "Trastero", "Piscina", "Parking", "Jardin", "Cerca ciudad",
      "Com. cerrada", "Buenas vistas", "Seguridad", "Deportes", "Portero", "Aire A/C",
      "Calefaccion", "Domotica">>

\* selected.filter((i) => i !== label)
Without(list, label) == SelectSeq(list, LAMBDA i : i # label)

\* a variant that appends without looking
toggleExtraAppending(w, label) ==
    updatePropertyData(w, [extras |-> Append(extrasOf(w.store.propertyData), label)])

\* toggleExtra(label) of Extras
toggleExtra(w, label) ==
    LET selectedExtras == extrasOf(w.store.propertyData)
    IN  IF label \in Range(selectedExtras)
        THEN updatePropertyData(w, [extras |-> Without(selectedExtras, label)])
        ELSE updatePropertyData(w, [extras |-> Append(selectedExtras, label)])

\* the Continuar button of Extras: navigate('/acabados') in the first copy
\* of the component in Extras.tsx, navigateTo('acabados') in the second
continueFromExtras(w, copy, slug, now) ==
    IF copy = 1 THEN navigate(w, absolutePath("acabados"), now)
    ELSE navigate(w, navigateTo(slug, "acabados"), now)

\* handleChange(value) of Finishes
handleChange(w, value) == updatePropertyData(w, [finishQuality |-> value])

\* handleSubmit of LeadCapture with a valid name and email
handleSubmit(w, lead, slug, now) ==
    navigate([w EXCEPT !.store.leadData = <<lead>>], navigateTo(slug, "resultado"), now)

---------------------------------------------------------------------------
(* A visit: the visitor opens /{slug} and walks through the wizard.  The   *)
(* clock stays within one calendar year.  Of the editing screens only the  *)
(* finish selection is taken along here; the others have specifications of *)
(* their own below.                                                        *)

sessionFrame == <<engineVars, currentYear, adjVars, cadVars, heap>>

FinishChoices == {"design", "full_reform"}

InitWizard ==
    /\ EngineIdle
    /\ currentYear = BaseYear
    /\ AdjustmentsIdle
    /\ CadastreIdle
    /\ heap = <<>>
    /\ store = initialStore
    /\ history = <<navigateTo(Slug, "")>>
    /\ mount = FreshMount
    /\ pending = {}
    /\ outbox = NoRequests

ChooseAddress(place) ==
    /\ Screen = "index"
    /\ Becomes(handleResultClick(Session, place, slugOf(Location), currentYear))
    /\ UNCHANGED sessionFrame

ClickUnit(index) ==
    /\ Screen = "seleccionar-vivienda"
    /\ index \in 1..Len(store.buildingUnits)
    /\ Becomes(selectUnitAndLeave(Session, index, currentYear))
    /\ UNCHANGED sessionFrame

\* getCadastralDataByCoordinates resolves and fetchData goes on
FetchDataSettles ==
    /\ \E c \in pending :
          /\ c.kind = "fetchData"
          /\ Becomes(fetchDataResumed(Session, c))
    /\ UNCHANGED sessionFrame

\* the button is disabled while isLoadingCatastro
ContinueFromDetails ==
    /\ Screen = "detalles"
    /\ ~store.isLoadingCatastro
    /\ Becomes(handleContinue(Session, slugOf(Location), currentYear))
    /\ UNCHANGED sessionFrame

\* the Continuar buttons that only navigate: navigateTo('habitaciones'),
\* navigateTo('extras'), navigateTo('datos')
ContinueFrom(screen, next) ==
    /\ Screen = screen
    /\ Becomes(navigate(Session, navigateTo(slugOf(Location), next), currentYear))
    /\ UNCHANGED sessionFrame

ContinueFromExtras(copy) ==
    /\ Screen = "extras"
    /\ Becomes(continueFromExtras(Session, copy, slugOf(Location), currentYear))
    /\ UNCHANGED sessionFrame

ChooseFinish(value) ==
    /\ Screen = "acabados"
    /\ Becomes(handleChange(Session, value))
    /\ UNCHANGED sessionFrame

SubmitLead(lead) ==
    /\ Screen = "datos"
    /\ Becomes(handleSubmit(Session, lead, slugOf(Location), currentYear))
    /\ UNCHANGED sessionFrame

\* the store changed under the mounted result screen: it renders again and
\* the effect runs with the new view
Rerender ==
    /\ Screen = "resultado"
    /\ mount.view # <<viewOf(Session, <<TheClient>>)>>
    /\ Becomes(processValuation(
                   [Session EXCEPT !.mount.view = <<viewOf(Session, <<TheClient>>)>>],
                   viewOf(Session, <<TheClient>>), currentYear))
    /\ UNCHANGED sessionFrame

\* saveValuation resolves, to null or to the saved record
SaveSettles(saved) ==
    /\ \E c \in pending :
          /\ c.kind = "saveValuation"
          /\ Becomes(processValuationResumed(Session, c, saved))
    /\ UNCHANGED sessionFrame

GoBack ==
    /\ Len(history) > 1
    /\ Becomes(goBack(Session, currentYear))
    /\ UNCHANGED sessionFrame

\* what saveValuation resolves to: null or the saved record
Saved == {<<>>} \cup {<<[reportToken |-> t]>> : t \in Tokens}

\* within a visit the back end hands out the first token
SavedInVisit == {<<>>, <<[reportToken |-> "tk1"]>>}

NextWizard ==
    \/ \E place \in Places : ChooseAddress(place)
    \/ \E index \in 1..MaxUnits : ClickUnit(index)
    \/ FetchDataSettles
    \/ ContinueFromDetails
    \/ ContinueFrom("verificar", "habitaciones")
    \/ ContinueFrom("habitaciones", "extras")
    \/ \E copy \in {1, 2} : ContinueFromExtras(copy)
    \/ \E value \in FinishChoices : ChooseFinish(value)
    \/ ContinueFrom("acabados", "datos")
    \/ \E lead \in Leads : SubmitLead(lead)
    \/ Rerender
    \/ \E saved \in SavedInVisit : SaveSettles(saved)
    \/ GoBack

WizardSpec == InitWizard /\ [][NextWizard]_vars

---------------------------------------------------------------------------
(* The first screens of a visit, with the store's reset() callable at any  *)
(* moment (no screen calls it; it is part of the store's interface).       *)

Reset ==
    /\ Becomes(reset(Session))
    /\ UNCHANGED sessionFrame

NextReset ==
    \/ \E place \in Places : ChooseAddress(place)
    \/ \E index \in 1..MaxUnits : ClickUnit(index)
    \/ FetchDataSettles
    \/ ContinueFromDetails
    \/ GoBack
    \/ Reset

ResetSpec == InitWizard /\ [][NextReset]_vars

---------------------------------------------------------------------------
(* The result screen on its own: renders, runs of its effect (React may    *)
(* run an effect again with the view of the same render), the save in      *)
(* flight, and leaving the screen and coming back.                         *)

ResultProperties ==
    {[initialPropertyData EXCEPT !.finishQuality = q, !.surface = m] :
        q \in {"good", "design"}, m \in {100, 150}}

\* useClient().client and the store's leadData as the screen may find them
ResultClients == {<<>>, <<TheClient>>, <<[slug |-> Slug]>>}

InitResult ==
    /\ EngineIdle
    /\ currentYear = BaseYear
    /\ AdjustmentsIdle
    /\ CadastreIdle
    /\ heap = <<>>
    /\ history = <<navigateTo(Slug, "resultado")>>
    /\ pending = {}
    /\ outbox = NoRequests
    /\ \E p \in ResultProperties, lead \in {<<>>} \cup {<<l>> : l \in Leads},
          client \in ResultClients, stale \in BOOLEAN :
          /\ store = [initialStore EXCEPT
                        !.propertyData = p,
                        !.leadData = lead,
                        !.valuationResult =
                            IF stale THEN <<calculateValuation(initialPropertyData,
                                                               currentYear)>>
                            ELSE <<>>]
          /\ mount = [FreshMount EXCEPT !.view = <<viewOf([store |-> store], client)>>]

\* the component renders with the store as it is
Render ==
    /\ mount.view # <<viewOf(Session, mount.view[1].client)>>
    /\ mount' = [mount EXCEPT !.view = <<viewOf(Session, mount.view[1].client)>>]
    /\ UNCHANGED <<store, history, pending, outbox, sessionFrame>>

\* the effect of the last render runs
RunEffect ==
    /\ Becomes(processValuation(Session, mount.view[1], currentYear))
    /\ UNCHANGED sessionFrame

\* the visitor leaves the screen and comes back: a new mount
Remount ==
    /\ mount' = [FreshMount EXCEPT !.view = <<viewOf(Session, mount.view[1].client)>>]
    /\ pending' = {[c EXCEPT !.live = FALSE] : c \in pending}
    /\ UNCHANGED <<store, history, outbox, sessionFrame>>

NextResult ==
    \/ Render
    \/ RunEffect
    \/ \E saved \in Saved : SaveSettles(saved)
    \/ Remount

ResultSpec == InitResult /\ [][NextResult]_vars

---------------------------------------------------------------------------
(* The rooms screen on its own: mounted for a dwelling of some surface     *)
(* with the store's initial counts, then + and - clicks.                   *)

MaxRooms == 5

RoomSurfaces == {35, 50, 70, 90, 100, 130, 200}

InitRooms ==
    /\ EngineIdle
    /\ currentYear = BaseYear
    /\ AdjustmentsIdle
    /\ CadastreIdle
    /\ heap = <<>>
    /\ history = <<navigateTo(Slug, "habitaciones")>>
    /\ mount = FreshMount
    /\ pending = {}
    /\ outbox = NoRequests
    /\ \E m \in RoomSurfaces :
          store = smartDefaultsEffect(
                      [store |-> [initialStore EXCEPT !.propertyData.surface = m]]).store

LessBedrooms ==
    /\ Becomes(lessBedrooms(Session))
    /\ UNCHANGED sessionFrame

MoreBedrooms ==
    /\ displayedRooms(store.propertyData) < MaxRooms
    /\ Becomes(moreBedrooms(Session))
    /\ UNCHANGED sessionFrame

LessBathrooms ==
    /\ Becomes(lessBathrooms(Session))
    /\ UNCHANGED sessionFrame

MoreBathrooms ==
    /\ displayedBaths(store.propertyData) < MaxRooms
    /\ Becomes(moreBathrooms(Session))
    /\ UNCHANGED sessionFrame

NextRooms == LessBedrooms \/ MoreBedrooms \/ LessBathrooms \/ MoreBathrooms

RoomsSpec == InitRooms /\ [][NextRooms]_vars

---------------------------------------------------------------------------
(* The verify-data screen on its own.  The store holds a surface and a     *)
(* year of the data model's ranges, as the details screen wrote them; the  *)
(* clock reads 2025, the first year for which the screen's upper bound of  *)
(* 2026 is the year after, or one of the two years that follow.            *)

MaxSurface == 40

VerifyClock == {2025, 2026, 2027}

VerifySurfaces == {3, 20}

VerifyYears(now) == {1801, 1995, now + 1}

InitVerify ==
    /\ EngineIdle
    /\ currentYear \in VerifyClock
    /\ AdjustmentsIdle
    /\ CadastreIdle
    /\ heap = <<>>
    /\ history = <<navigateTo(Slug, "verificar")>>
    /\ mount = FreshMount
    /\ pending = {}
    /\ outbox = NoRequests
    /\ \E m \in VerifySurfaces, y \in VerifyYears(currentYear) :
          store = [initialStore EXCEPT !.propertyData.surface = m,
                                       !.propertyData.constructionYear = y]

\* the -5 m2 and +5 m2 buttons
SurfaceClick(delta) ==
    /\ store.propertyData.surface + delta <= MaxSurface
    /\ Becomes(handleSurfaceChange(Session, delta))
    /\ UNCHANGED sessionFrame

\* the -1 and +1 buttons of the year
YearClick(delta) ==
    /\ Becomes(handleYearChange(Session, delta))
    /\ UNCHANGED sessionFrame

NextVerify ==
    \/ \E delta \in {-5, 5} : SurfaceClick(delta)
    \/ \E delta \in {-1, 1} : YearClick(delta)

VerifySpec == InitVerify /\ [][NextVerify]_vars

---------------------------------------------------------------------------
(* The extras screen on its own: toggleExtra clicks from the initial store *)

MaxSelected == 2

InitToggle ==
    /\ EngineIdle
    /\ currentYear = BaseYear
    /\ AdjustmentsIdle
    /\ CadastreIdle
    /\ heap = <<>>
    /\ store = initialStore
    /\ history = <<navigateTo(Slug, "extras")>>
    /\ mount = FreshMount
    /\ pending = {}
    /\ outbox = NoRequests

\* onClick={() => toggleExtra(extra.label)}
ToggleExtra(label) ==
    /\ \/ label \in Range(extrasOf(store.propertyData))
       \/ Len(extrasOf(store.propertyData)) < MaxSelected
    /\ Becomes(toggleExtra(Session, label))
    /\ UNCHANGED sessionFrame

NextToggle == \E label \in Range(EXTRAS_LIST) : ToggleExtra(label)

ToggleSpec == InitToggle /\ [][NextToggle]_vars

---------------------------------------------------------------------------
(* Properties of the valuation engine (ValuationSpec)                      *)

Ordered(r) == r.conservative <= r.estimated /\ r.estimated <= r.optimistic

StrictlyOrdered(r) == r.conservative < r.estimated /\ r.estimated < r.optimistic

Invocations == {calls[i] : i \in 1..Len(calls)}

\* C1: for every attribute set whose surface is > 0, the rounded amounts of
\* the result satisfy conservative <= estimated <= optimistic.
C1_OrderedForPositiveSurface ==
    \A c \in Invocations :
        ("surface" \in DOMAIN property /\ property.surface > 0) => Ordered(c.result)

C1_Witness ==
    /\ calls # <<>>
    /\ "surface" \in DOMAIN property /\ property.surface = 300
    /\ "bedrooms" \in DOMAIN property /\ property.bedrooms = 10
    /\ StrictlyOrdered(calls[1].result)

\* C2: calculateValuation returns, for every partial attribute set, a result
\* whose five fields are numbers; an absent surface counts as 100 (size
\* adjustment of 100 m2, estimate over 100 m2) and an absent constructionYear,
\* extras, finishQuality or bedrooms contributes an adjustment of 0.
C2_TotalWithDefaults ==
    \A c \in Invocations :
        LET p == property
            r == c.result
            yearAdj == getYearAdjustment(Get(p, "constructionYear"), c.at)
            extrasAdj == getExtrasAdjustment(extrasOf(p))
            finishAdj == getFinishQualityAdjustment(Get(p, "finishQuality"))
            roomsAdj == getRoomsAdjustment(Get(p, "bedrooms"), Get(p, "bathrooms"),
                                           Get(p, "surface"))
        IN  /\ DOMAIN r = {"conservative", "estimated", "optimistic",
                           "pricePerSqm", "confidence"}
            /\ \A f \in DOMAIN r : r[f] \in Int
            /\ "constructionYear" \notin DOMAIN p => yearAdj = 0
            /\ "extras" \notin DOMAIN p => extrasAdj = 0
            /\ "finishQuality" \notin DOMAIN p => finishAdj = 0
            /\ "bedrooms" \notin DOMAIN p => roomsAdj = 0
            /\ "surface" \notin DOMAIN p =>
                  /\ c.totalAdjustment = 100 + yearAdj + extrasAdj + finishAdj
                  /\ r.estimated = Round(c.basePricePerSqm * c.totalAdjustment * 100, 100)
                  /\ r.conservative = Round(c.basePricePerSqm * c.totalAdjustment * 900, 1000)
                  /\ r.optimistic = Round(c.basePricePerSqm * c.totalAdjustment * 1100, 1000)

C2_Witness ==
    /\ calls # <<>>
    /\ DOMAIN property = {"postalCode", "bedrooms", "bathrooms"}
    /\ calls[1].result.estimated = 350000

\* C3 as stated: the ordering holds for every attribute set the engine
\* accepts, whatever the value of surface.
C3_OrderedAlways == \A c \in Invocations : Ordered(c.result)

\* C3 as amended: the ordering holds whenever surface is absent, 0 (both
\* read as 100) or positive; a negative surface reverses it.
C3_OrderedUnlessNegativeSurface ==
    \A c \in Invocations :
        /\ ("surface" \notin DOMAIN property \/ property.surface >= 0) => Ordered(c.result)
        /\ ("surface" \in DOMAIN property /\ property.surface < 0) =>
              (c.result.conservative >= c.result.estimated
                 /\ c.result.estimated >= c.result.optimistic)

C3_Witness ==
    /\ calls # <<>>
    /\ "surface" \in DOMAIN property /\ property.surface = 0
    /\ StrictlyOrdered(calls[1].result)

\* the zone entries of a city (case-insensitive) and of a province prefix
CityZones(city) ==
    {i \in 1..Len(zones) : toLowerCase(zones[i].city) = toLowerCase(city)}

PrefixZones(postalCode) ==
    {i \in 1..Len(zones) :
        Len(postalCode) >= 3 /\ SubSeq(zones[i].code, 1, 3) = SubSeq(postalCode, 1, 3)}

\* C4: the base price follows the precedence exact postal code, then city
\* (case-insensitive), then 3-digit prefix at 85%, then the nationwide
\* average; absent postal code and city fall through to the average.
C4_ZonePrecedence ==
    \A c \in Invocations :
        LET pc == IF "postalCode" \in DOMAIN property THEN property.postalCode ELSE <<>>
            city == IF "city" \in DOMAIN property THEN property.city ELSE <<>>
            exact == {i \in 1..Len(zones) : pc # <<>> /\ zones[i].code = pc}
            byCity == IF city = <<>> THEN {} ELSE CityZones(city)
            byPrefix == IF pc = <<>> THEN {} ELSE PrefixZones(pc)
        IN  IF exact # {}
            THEN c.basePricePerSqm \in {zones[i].pricePerSqm : i \in exact}
            ELSE IF byCity # {}
            THEN c.basePricePerSqm \in {zones[i].pricePerSqm : i \in byCity}
            ELSE IF byPrefix # {}
            THEN \E i \in byPrefix : 100 * c.basePricePerSqm = 85 * zones[i].pricePerSqm
            ELSE c.basePricePerSqm = defaults.spain_average

\* a prefix-only postal code together with a city of another province
C4_Witness ==
    /\ calls # <<>>
    /\ "postalCode" \in DOMAIN property /\ property.postalCode = <<"2","8","0","9","9">>
    /\ "city" \in DOMAIN property /\ property.city = <<"s","e","v","i","l","l","a">>
    /\ calls[1].basePricePerSqm = 2200

\* C5: the confidence lies in [50, 95]; it is 50 for the empty attribute set
\* and 95 when every bonus applies (raw sum 100).
C5_ConfidenceRange ==
    \A c \in Invocations :
        /\ 50 <= c.result.confidence /\ c.result.confidence <= 95
        /\ property = EmptyRec => c.result.confidence = 50
        /\ property = FullProperty =>
              (confidenceScore(property) = 100 /\ c.result.confidence = 95)

C5_Witness ==
    /\ calls # <<>>
    /\ property = FullProperty
    /\ calls[1].result.confidence = 95

\* the supplied values lie in the domains the data model gives the fields
InDomain(p) ==
    /\ \A f \in DOMAIN p \cap {"postalCode", "city", "cadastralReference"} : p[f] # <<>>
    /\ "surface" \in DOMAIN p => p.surface > 0
    /\ "constructionYear" \in DOMAIN p => p.constructionYear >= 1800
    /\ \A f \in DOMAIN p \cap {"bedrooms", "bathrooms"} : p[f] >= 0
    /\ "finishQuality" \in DOMAIN p => p.finishQuality # ""

Bonus(p, f, n) == IF f \in DOMAIN p THEN n ELSE 0

\* C6: confidence = min(95, 50 + bonuses), a bonus being earned by every
\* field that is present with any value of its domain (0 bedrooms or
\* bathrooms and a coordinate of 0 included).
C6_ConfidenceBonuses ==
    \A c \in Invocations :
        LET p == property
        IN  InDomain(p) =>
              c.result.confidence =
                Min(95,
                    50
                    + (IF "postalCode" \in DOMAIN p
                       THEN (IF \E i \in 1..Len(zones) : zones[i].code = p.postalCode
                             THEN 15 ELSE 5)
                       ELSE 0)
                    + Bonus(p, "city", 5)
                    + (IF {"latitude", "longitude"} \subseteq DOMAIN p THEN 5 ELSE 0)
                    + Bonus(p, "surface", 5)
                    + Bonus(p, "constructionYear", 5)
                    + Bonus(p, "cadastralReference", 5)
                    + Bonus(p, "bedrooms", 3)
                    + Bonus(p, "bathrooms", 2)
                    + (IF "extras" \in DOMAIN p /\ p.extras # <<>> THEN 3 ELSE 0)
                    + Bonus(p, "finishQuality", 2))

IsScenarioMadrid(p) ==
    /\ DOMAIN p \in {DOMAIN ScenarioMadrid, DOMAIN ScenarioMadrid \ {"extras"}}
    /\ \A f \in DOMAIN p : p[f] = ScenarioMadrid[f]

BasePrice28014 == zones[FirstIndex(zoneIndex(Str28014))].pricePerSqm

\* C7 as stated: in the Madrid scenario totalAdjustment is 1.0 exactly,
\* estimated = basePrice(28014) x 100, conservative = 0.9 x estimated and
\* optimistic = 1.1 x estimated.
C7_ScenarioNeutral ==
    \A c \in Invocations :
        IsScenarioMadrid(property) =>
            /\ c.totalAdjustment = 100
            /\ c.result.estimated = BasePrice28014 * 100
            /\ 10 * c.result.conservative = 9 * c.result.estimated
            /\ 10 * c.result.optimistic = 11 * c.result.estimated

\* C7 as amended: construction year 2000 is age-neutral only while the
\* clock's year is 2011..2020; from 2021 (to 2040) the age adjustment is
\* -0.05, totalAdjustment is 0.95 and estimated = 0.95 x basePrice x 100.
\* In the first case conservative and optimistic are 0.9 and 1.1 x
\* estimated, in the second these products rounded.
C7_ScenarioByClockYear ==
    \A c \in Invocations :
        IsScenarioMadrid(property) =>
            /\ (2011 <= c.at /\ c.at <= 2020) =>
                  /\ c.totalAdjustment = 100
                  /\ c.result.estimated = BasePrice28014 * 100
                  /\ 10 * c.result.conservative = 9 * c.result.estimated
                  /\ 10 * c.result.optimistic = 11 * c.result.estimated
            /\ (2021 <= c.at /\ c.at <= 2040) =>
                  /\ c.totalAdjustment = 95
                  /\ c.result.estimated = BasePrice28014 * 95
                  /\ c.result.conservative = Round(9 * c.result.estimated, 10)
                  /\ c.result.optimistic = Round(11 * c.result.estimated, 10)

C7_Witness ==
    /\ Len(calls) = 2
    /\ IsScenarioMadrid(property)
    /\ calls[1].totalAdjustment = 100
    /\ calls[2].totalAdjustment = 95

\* the age band of the adjustment table: <=0, <=5, <=10, <=20, <=40, <=60, above
AgeBand(age) ==
    IF age <= 0 THEN 0
    ELSE Cardinality({b \in {0, 5, 10, 20, 40, 60} : age > b})

SameAgeBand(p, y1, y2) ==
    \/ "constructionYear" \notin DOMAIN p
    \/ p.constructionYear = 0
    \/ AgeBand(y1 - p.constructionYear) = AgeBand(y2 - p.constructionYear)

\* C8 as stated: two invocations on the same attribute set return the same
\* result and the same zone price, whenever they take place.
C8_IdempotentAlways ==
    Len(calls) = 2 =>
        /\ calls[1].result = calls[2].result
        /\ calls[1].basePricePerSqm = calls[2].basePricePerSqm

\* C8 as amended: the zone price is the same whenever the lookups take
\* place, and so is the confidence; the results are the same provided the
\* clock's year leaves constructionYear in the same age band at both
\* invocations (always so when constructionYear is absent or 0).
C8_IdempotentWithinAgeBand ==
    Len(calls) = 2 =>
        /\ calls[1].basePricePerSqm = calls[2].basePricePerSqm
        /\ calls[1].result.confidence = calls[2].result.confidence
        /\ SameAgeBand(property, calls[1].at, calls[2].at) =>
              calls[1].result = calls[2].result

C8_Witness ==
    /\ Len(calls) = 2
    /\ calls[1].at < calls[2].at
    /\ "constructionYear" \in DOMAIN property /\ property.constructionYear = 2001
    /\ calls[1].result = calls[2].result

\* C10: for the empty attributes object the base price is the nationwide
\* average, the surface 100 and the multiplier 1: estimated = average x 100,
\* pricePerSqm = average, conservative = round(0.9 x estimated), optimistic =
\* round(1.1 x estimated), confidence = 50.
C10_EmptyAttributes ==
    \A c \in Invocations :
        property = EmptyRec =>
            /\ c.basePricePerSqm = defaults.spain_average
            /\ c.totalAdjustment = 100
            /\ c.result.estimated = defaults.spain_average * 100
            /\ c.result.pricePerSqm = defaults.spain_average
            /\ c.result.conservative = Round(9 * c.result.estimated, 10)
            /\ c.result.optimistic = Round(11 * c.result.estimated, 10)
            /\ c.result.confidence = 50

C10_Witness ==
    /\ calls # <<>>
    /\ property = EmptyRec
    /\ calls[1].result.estimated = defaults.spain_average * 100

---------------------------------------------------------------------------
(* Properties of getExtrasAdjustment (ExtrasSpec)                          *)

\* the raw sum of a list: each table value times the number of occurrences
\* of its tag, plus 1 for every tag the table does not hold
RawExtras(list) ==
    LET Occ(t) == Cardinality({i \in 1..Len(list) : list[i] = t})
        Tags == Range(list) \cap DOMAIN extraValues
        Total[S \in SUBSET Tags] ==
            IF S = {} THEN 0
            ELSE LET t == CHOOSE x \in S : TRUE
                 IN  extraValues[t] * Occ(t) + Total[S \ {t}]
    IN  Total[Tags] + Cardinality({i \in 1..Len(list) : list[i] \notin DOMAIN extraValues})

\* C9: getExtrasAdjustment is min(0.25, sum of the tags' table values with
\* 0.01 per unrecognized tag); it does not decrease when a tag is appended,
\* never exceeds 0.25, and is 0.25 for the eight tags whose raw sum is 0.27.
C9_ExtrasCapped ==
    extrasRun # <<>> =>
        /\ extrasRun[1].after = Min(25, RawExtras(extrasArg))
        /\ extrasRun[1].after <= 25
        /\ extrasRun[1].before <= extrasRun[1].after
        /\ extrasArg = EightExtras => (RawExtras(extrasArg) = 27 /\ extrasRun[1].after = 25)

C9_Witness ==
    /\ extrasRun # <<>>
    /\ extrasRun[1].added = 1
    /\ SubSeq(extrasArg, 1, Len(extrasArg) - 1) = EightExtras
    /\ extrasArg[Len(extrasArg)] = "Terraza"
    /\ extrasRun[1].before = 25
    /\ extrasRun[1].after = 25

---------------------------------------------------------------------------
(* Properties of the adjustment calculators (AdjustmentSpec)               *)

\* the age bands as stated: lowest age, highest age, adjustment in hundredths
AgeBands ==
    { [lo |-> -100000, hi |-> 0, adj |-> 15],
      [lo |-> 1, hi |-> 5, adj |-> 10],
      [lo |-> 6, hi |-> 10, adj |-> 5],
      [lo |-> 11, hi |-> 20, adj |-> 0],
      [lo |-> 21, hi |-> 40, adj |-> -5],
      [lo |-> 41, hi |-> 60, adj |-> -10],
      [lo |-> 61, hi |-> 100000, adj |-> -12] }

BandsOf(age) == {b \in AgeBands : b.lo <= age /\ age <= b.hi}

\* C11: the age adjustment is 0 when no construction year is supplied, and
\* for a supplied year the age (clock year minus construction year) lies in
\* exactly one of the seven bands, whose adjustment is the one returned:
\* +0.15 up to age 0, +0.10 for 1-5, +0.05 for 6-10, 0 for 11-20, -0.05 for
\* 21-40, -0.10 for 41-60 and -0.12 above 60.
C11_AgeBands ==
    (adjRun # <<>> /\ adjArgs.fn = "year") =>
        IF adjArgs.year = undefined
        THEN adjRun[1].value = 0
        ELSE LET bands == BandsOf(adjRun[1].at - adjArgs.year[1])
             IN  /\ Cardinality(bands) = 1
                 /\ \A b \in bands : adjRun[1].value = b.adj

\* a building exactly 60 years old at the clock reading gets -0.10
C11_Witness ==
    /\ adjRun # <<>>
    /\ adjArgs.fn = "year"
    /\ adjArgs.year # undefined
    /\ adjRun[1].at - adjArgs.year[1] = 60
    /\ adjRun[1].value = -10

\* C12: the room-density adjustment is 0 when bedrooms or surface is not
\* supplied and when bedrooms is 0; otherwise it is -0.05 when the surface
\* per bedroom is below 15 m2, -0.02 when it is above 50 m2, and in between
\* +0.02 exactly when there are at least 2 bathrooms and at least 100 m2,
\* else 0.
C12_RoomDensity ==
    (adjRun # <<>> /\ adjArgs.fn = "rooms") =>
        LET b == adjArgs.bedrooms
            t == adjArgs.bathrooms
            s == adjArgs.surface
            v == adjRun[1].value
        IN  IF b = undefined \/ s = undefined THEN v = 0
            ELSE IF b[1] = 0 THEN v = 0
            ELSE IF s[1] < 15 * b[1] THEN v = -5
            ELSE IF s[1] > 50 * b[1] THEN v = -2
            ELSE IF t # undefined /\ t[1] >= 2 /\ s[1] >= 100 THEN v = 2
            ELSE v = 0

\* 90 m2 with 6 bedrooms is exactly 15 m2 per bedroom: not the small band
C12_Witness ==
    /\ adjRun # <<>>
    /\ adjArgs.fn = "rooms"
    /\ adjArgs.bedrooms = <<6>>
    /\ adjArgs.surface = <<90>>
    /\ adjRun[1].value = 0

---------------------------------------------------------------------------
(* Composition and rounding (ValuationSpec)                                *)

\* 1 + the five adjustments, in hundredths
SumOfAdjustments(p, now) ==
    100 + getYearAdjustment(Get(p, "constructionYear"), now)
        + getExtrasAdjustment(extrasOf(p))
        + getFinishQualityAdjustment(Get(p, "finishQuality"))
        + getSizeAdjustment(surfaceOf(p))
        + getRoomsAdjustment(Get(p, "bedrooms"), Get(p, "bathrooms"), Get(p, "surface"))

\* C13: the multiplier is exactly 1 plus the five adjustments, and the four
\* amounts are each one rounding of an unrounded product: price per m2 of
\* base x multiplier, estimate of base x multiplier x surface, conservative
\* and optimistic of 0.90 and 1.10 times that unrounded estimate; all four
\* are integers.
C13_Composition ==
    \A c \in Invocations :
        LET T == SumOfAdjustments(property, c.at)
            b == c.basePricePerSqm
            s == surfaceOf(property)
            r == c.result
        IN  /\ c.totalAdjustment = T
            /\ r.pricePerSqm = Round(b * T, 100)
            /\ r.estimated = Round(b * T * s, 100)
            /\ r.conservative = Round(9 * b * T * s, 1000)
            /\ r.optimistic = Round(11 * b * T * s, 1000)
            /\ {r.pricePerSqm, r.estimated, r.conservative, r.optimistic} \subseteq Int

\* the adjusted price has a fraction of a euro, and the estimate is not the
\* rounded price times the surface
C13_Witness ==
    \E c \in Invocations :
        /\ (c.basePricePerSqm * c.totalAdjustment) % 100 # 0
        /\ c.result.estimated # c.result.pricePerSqm * surfaceOf(property)
        /\ c.result.conservative # Round(9 * c.result.estimated, 10)

---------------------------------------------------------------------------
(* Properties of the cadastral normalizer and the unit selector           *)
(* (CadastralSpec)                                                         *)

\* the same kind and the same content
SameValue(a, b) == Kind(a) = Kind(b) /\ a = b

\* the normalizer returned a record
ParsedRecord == parsed # <<>> /\ ~parsed[1].threw /\ Kind(parsed[1].value) = "object"

\* C14: the normalizer raises on no response; it returns null only for an
\* empty or absent response, and a record for every other one.
C14_NeverRaises ==
    parsed # <<>> =>
        /\ ~parsed[1].threw
        /\ IF Truthy(response) THEN Kind(parsed[1].value) = "object"
           ELSE Kind(parsed[1].value) = "null"

\* a reference given as an object of parts, without the whole text
PartsOnly(v) == Kind(v) = "object" /\ ~Truthy(Prop(v, "referenciaCatastral"))

\* the parts of the object, in the order pc1, pc2, car, cc1, cc2
JoinedParts(v) ==
    JStr(PartText(Prop(v, "pc1")) \o PartText(Prop(v, "pc2")) \o PartText(Prop(v, "car"))
         \o PartText(Prop(v, "cc1")) \o PartText(Prop(v, "cc2")))

\* the reference of response { rc: v } as the normalizer returns it
ReferenceOfStringForm(v) ==
    parseCadastralResponse(JObj(Single("rc", v))).value[2].cadastralReference

SharedMembers == {"cadastralReference", "surface", "constructionYear", "propertyType"}

\* the response with only the unit u in its list
WithOnlyUnit(data, u) == JObj([data[2] EXCEPT !["inmuebles"] = JArr(<<u>>)])

\* C16: selecting unit u writes the same cadastralReference, surface,
\* constructionYear and propertyType that the normalizer returns for a
\* response whose first unit is u.
C16_SelectionMatchesNormalizer ==
    (selected # <<>> /\ ~selected[1].outcome.threw) =>
        LET u == buildingUnits(response)[selected[1].index]
            ref == parseCadastralResponse(WithOnlyUnit(response, u))
        IN  ~ref.threw =>
              \A m \in SharedMembers :
                  SameValue(selected[1].outcome.value[2][m], ref.value[2][m])

\* the four surface members in the order they are read
SurfaceMembers(propertyData) ==
    << Prop(economicosOf(propertyData), "superficieConstruida"),
       Prop(economicosOf(propertyData), "superficie"),
       Prop(propertyData, "superficie"),
       Prop(propertyData, "superficieConstruida") >>

\* the number a member denotes, its decimal comma read as a point
DecimalOf(v) == parseFloat(JStr(replaceComma(StringOf(v))))

\* C18: the surface is the positive number denoted by the first available
\* of the four surface members, a decimal comma read as a decimal point
\* ("85,5" is 85.5), and it is 100 when none of them denotes a number.
C18_SurfaceDecimal ==
    ParsedRecord =>
        LET m == SurfaceMembers(propertyDataOf(response))
            avail == {i \in 1..4 : Truthy(m[i])}
            surface == parsed[1].value[2].surface
        IN  /\ \A i \in avail :
                  ((\A k \in avail : i <= k) /\ Kind(DecimalOf(m[i])) = "number"
                      /\ DecimalOf(m[i])[2] > 0)
                      => surface = DecimalOf(m[i])
            /\ (\A i \in 1..4 : Kind(m[i]) = "undefined" \/ Kind(DecimalOf(m[i])) # "number")
                  => surface = JInt(100)

\* C19: the building type is the explicit type member when it is a
\* non-empty string; otherwise it is Plurifamiliar exactly when the
\* response reports more than one unit, by its count or by a unit list of
\* more than one entry, and Unifamiliar if not.
C19_BuildingTypeByCountOrList ==
    ParsedRecord =>
        LET tipo == Prop(propertyDataOf(response), "tipoInmueble")
            buildingType == parsed[1].value[2].buildingType
        IN  IF Kind(tipo) = "string" /\ Truthy(tipo) THEN buildingType = tipo
            ELSE IF MoreThanOne(Prop(response, "numeroInmuebles"))
                    \/ Len(buildingUnits(response)) > 1
            THEN buildingType = JStr(Chars_Plurifamiliar)
            ELSE buildingType = JStr(Chars_Unifamiliar)

\* C19 as the normalizer decides it: the building type is the type member
\* of the first unit (of the response itself when it lists no unit) when
\* that is a non-empty string; otherwise it is Plurifamiliar exactly when
\* the count numeroInmuebles of the response is greater than 1, whatever
\* the length of the unit list, and Unifamiliar if not.
C19_BuildingTypeByCount ==
    ParsedRecord =>
        LET tipo == Prop(propertyDataOf(response), "tipoInmueble")
            count == Prop(response, "numeroInmuebles")
            buildingType == parsed[1].value[2].buildingType
        IN  IF Kind(tipo) = "string" /\ Truthy(tipo) THEN buildingType = tipo
            ELSE IF MoreThanOne(count)
            THEN buildingType = JStr(Chars_Plurifamiliar)
            ELSE buildingType = JStr(Chars_Unifamiliar)

\* two units listed without a count: Unifamiliar
C19_Witness ==
    /\ ParsedRecord
    /\ Len(buildingUnits(response)) > 1
    /\ Kind(Prop(response, "numeroInmuebles")) = "undefined"
    /\ ~Truthy(Prop(propertyDataOf(response), "tipoInmueble"))
    /\ parsed[1].value[2].buildingType = JStr(Chars_Unifamiliar)

\* the three use members in the order they are read
UseMembers(propertyData) ==
    << Prop(economicosOf(propertyData), "uso"),
       Prop(propertyData, "uso"),
       Prop(propertyData, "usoPrincipal") >>

\* C20: the use code is the first non-empty of the economic-data member
\* and the two top-level members; a code of the table gives its label, a
\* code the table does not hold is returned unchanged, and no code at all
\* gives the residential label.
C20_UseTranslation ==
    ParsedRecord =>
        LET m == UseMembers(propertyDataOf(response))
            avail == {i \in 1..3 : Truthy(m[i])}
            propertyType == parsed[1].value[2].propertyType
        IN  IF avail = {} THEN propertyType = JStr(Chars_Residencial)
            ELSE LET code == m[CHOOSE i \in avail : \A k \in avail : i <= k]
                 IN  IF Kind(code) = "string" /\ Len(code[2]) = 1
                        /\ code[2][1] \in DOMAIN useMapping
                     THEN propertyType = JStr(useMapping[code[2][1]])
                     ELSE SameValue(propertyType, code)

\* the economic-data code C wins over the top-level codes V and X
C20_Witness ==
    /\ ParsedRecord
    /\ LET m == UseMembers(propertyDataOf(response))
       IN  /\ m[1] = JStr(<<"C">>)
           /\ m[2] = JStr(<<"V">>)
           /\ m[3] = JStr(<<"X">>)
    /\ parsed[1].value[2].propertyType = JStr(useMapping["C"])

---------------------------------------------------------------------------
(* Properties of the registry lookups (RegistrySpec)                       *)

\* the exchange failed: fetch threw, the status was not OK, or the body
\* was no JSON
Failed(exchange) == exchange.status \in {"throws", "notOk", "invalidBody"}

\* no reference was found in an OK answer to the coordinates lookup
NoReference(exchange) ==
    /\ exchange.status = "ok"
    /\ \/ cadastralRefOf(exchange.body).threw
       \/ ~Truthy(cadastralRefOf(exchange.body).value)

\* the lookup met one of the upstream failures
UpstreamFailure(f) ==
    \/ ~f.apiKey
    \/ f.fn = "byReference" /\ Failed(f.second)
    \/ f.fn = "byCoordinates"
         /\ (Failed(f.first) \/ NoReference(f.first) \/ Failed(f.second))

\* a placeholder record: the fixed address of the two generators
Placeholder(v) == Kind(v) = "object" /\ v[2].address = JStr(Chars_Alcala)

\* C17: a lookup that meets an upstream failure (no API key, fetch
\* throwing, a non-OK status, or no reference found) is not rejected and
\* resolves to a placeholder record, never to null.
C17_FailureGivesPlaceholder ==
    (fetched # <<>> /\ UpstreamFailure(fetched[1])) =>
        /\ fetched[1].outcome.settled = "resolved"
        /\ Placeholder(fetched[1].outcome.value)

\* a coordinates lookup whose reference was found and whose second
\* exchange ended with a non-OK status
C17_Witness ==
    /\ fetched # <<>>
    /\ fetched[1].fn = "byCoordinates"
    /\ fetched[1].apiKey
    /\ fetched[1].first.status = "ok"
    /\ ~NoReference(fetched[1].first)
    /\ fetched[1].second.status = "notOk"
    /\ fetched[1].outcome.settled = "resolved"
    /\ Placeholder(fetched[1].outcome.value)

---------------------------------------------------------------------------
(* Properties of the core as a whole (CoreSpec)                            *)

---------------------------------------------------------------------------
(* Properties of a visit (WizardSpec)                                      *)

\* C22: every forward transition of the wizard stays with the client: a
\* step that pushes a location leads to a location with the same slug.
C22_SlugPreserved ==
    [][Len(history') > Len(history) => slugOf(Location') = slugOf(Location)]_vars

\* C23: on the result screen the stored valuation result is the valuation
\* of the attribute set the store holds at that moment.
C23_ResultIsCurrent ==
    Screen = "resultado" =>
        store.valuationResult = <<calculateValuation(store.propertyData, currentYear)>>

\* what the registry holds for a place: the parcel at its coordinates and
\* the units of the building
Attributes(r) ==
    [cadastralReference |-> r.cadastralReference, surface |-> r.surface,
     constructionYear |-> r.constructionYear]

UnitAttributes(u) ==
    LET patch == handleSelectUnit(u, JStr(<<>>)).value[2]
    IN  [cadastralReference |-> StringOf(patch.cadastralReference),
         surface |-> NumberOf(patch.surface),
         constructionYear |-> NumberOf(patch.constructionYear)]

RegistryOf(place) ==
    LET parcel == cadastralDataAt(placeDetails(place).latitude,
                                  placeDetails(place).longitude)[1]
        units == getBuildingUnits(parcel.cadastralReference).inmuebles
    IN  {Attributes(parcel)} \cup {UnitAttributes(units[i]) : i \in 1..Len(units)}

\* C24: the cadastral data the details screen works with belongs to the
\* address chosen last: its reference, surface and year are the registry's
\* for that address.
C24_DetailsOfLatestAddress ==
    \A place \in Places :
        (/\ Screen = "detalles"
         /\ mount.cadastralData # <<>>
         /\ store.propertyData.address = placeDetails(place).mainText)
        => Attributes(mount.cadastralData[1]) \in RegistryOf(place)

---------------------------------------------------------------------------
(* Properties of the store's reset (ResetSpec)                             *)

\* C27: reset() returns the whole store to its initial state, the three
\* loading flags included, whatever state it is called in.
C27_ResetRestoresAll == [][Reset => store' = initialStore]_vars

---------------------------------------------------------------------------
(* Properties of the result screen (ResultSpec)                            *)

\* C25: saveValuation is called at most once, however often the effect of
\* the result screen runs and the screen is mounted, and only with lead data
\* and a client that has an id.
C25_SavedAtMostOnce ==
    /\ Len(outbox.saves) <= 1
    /\ \A i \in 1..Len(outbox.saves) :
          /\ outbox.saves[i].leadData # <<>>
          /\ outbox.saves[i].client # <<>>
          /\ "id" \in DOMAIN outbox.saves[i].client[1]

\* the effect has saved and the request is still in flight
C25_Witness ==
    /\ Len(outbox.saves) = 1
    /\ mount.hasSaved
    /\ \E c \in pending : c.kind = "saveValuation" /\ c.live

ReportUrl(reportToken) == <<"https://valorador-online.vercel.app/v/", reportToken>>

\* C26: every email sent carries the link built from the token of a record
\* saveValuation resolved to; a token is stored only from such a record; as
\* long as saving has only failed, no email is sent and no token is stored.
C26_EmailAfterSave ==
    /\ \A i \in 1..Len(outbox.emails) :
          \E j \in 1..Len(outbox.resolved) :
              /\ outbox.resolved[j] # <<>>
              /\ outbox.emails[i].reportUrl = ReportUrl(outbox.resolved[j][1].reportToken)
    /\ Len(outbox.emails) <= Len(SelectSeq(outbox.resolved, LAMBDA r : r # <<>>))
    /\ (\A j \in 1..Len(outbox.resolved) : outbox.resolved[j] = <<>>)
       => outbox.emails = <<>> /\ store.savedValuationToken = <<>>

\* saving succeeded: the token is stored and one email has gone out
C26_Witness ==
    /\ Len(outbox.emails) = 1
    /\ outbox.resolved = <<<<[reportToken |-> "tk2"]>>>>
    /\ store.savedValuationToken = <<"tk2">>

---------------------------------------------------------------------------
(* Properties of the rooms screen (RoomsSpec)                              *)

Bedrooms == store.propertyData.bedrooms

Bathrooms == store.propertyData.bathrooms

\* C28: the counts shown are the counts stored, the stored counts are never
\* negative, a '+' click raises the stored count by one and a '-' click
\* lowers it by one, leaving it at 0 when it is 0.
C28_CountsFollowClicks ==
    /\ [](/\ displayedRooms(store.propertyData) = Bedrooms
          /\ displayedBaths(store.propertyData) = Bathrooms
          /\ Bedrooms >= 0
          /\ Bathrooms >= 0)
    /\ [][/\ MoreBedrooms => Bedrooms' = Bedrooms + 1
          /\ LessBedrooms => Bedrooms' = Max(0, Bedrooms - 1)
          /\ MoreBathrooms => Bathrooms' = Bathrooms + 1
          /\ LessBathrooms => Bathrooms' = Max(0, Bathrooms - 1)]_vars

---------------------------------------------------------------------------
(* Properties of the verify-data screen (VerifySpec)                       *)

---------------------------------------------------------------------------
(* Properties of the extras screen (ToggleSpec)                            *)

Extras == extrasOf(store.propertyData)

TwiceToggled(label) ==
    extrasOf(toggleExtra(toggleExtra(Session, label), label).store.propertyData)

\* C30: after any sequence of toggleExtra clicks from the initial store the
\* list of extras holds no tag twice and only tags of the engine's table,
\* and toggling a tag twice gives back the set of tags there was.
C30_TogglesKeepSet ==
    /\ \A i, j \in 1..Len(Extras) : Extras[i] = Extras[j] => i = j
    /\ Range(Extras) \subseteq DOMAIN extraValues
    /\ \A label \in Range(EXTRAS_LIST) : Range(TwiceToggled(label)) = Range(Extras)

\* two tags have been switched on, one of them after the other
C30_Witness == Extras = <<"Jardin", "Aire A/C">>

====
